---- MODULE Spec2Model ----
(***************************************************************************)
(* hydramq-rs: the file segment store (src/src/topic/mod.rs), its iterator *)
(* and the binary codec it links against (codec::encode_message ->         *)
(* src/src/codec/encoder.rs, codec::decode_message ->                      *)
(* src/src/codec/decoder.rs), over the message model of                    *)
(* src/src/message/mod.rs.                                                  *)
(*                                                                         *)
(* Files are byte sequences (bytes are 0..255).  A file handle is the pair *)
(* (contents, cursor); both handles are opened with append(true), so every *)
(* write lands at the end of the file whatever the cursor is.              *)
(* Option<T> is a sequence of length 0 (None) or 1 (Some).                 *)
(***************************************************************************)
EXTENDS Integers, Sequences, FiniteSets, TLC

(***************************************************************************)
(* Bounds of the model.                                                    *)
(***************************************************************************)
\* a write is taken only while the segment holds fewer than MaxSize entries
MaxSize == 2
\* the times the process may stop during a write
MaxStops == 1
\* the insertions into the headers of one message
MaxInserts == 3
\* the handlers appended to one pipeline
MaxHandlers == 3

(***************************************************************************)
(* Fixed-width integers.  A u32 is the pair <<hi, lo>> of its 16-bit       *)
(* halves, so that the whole range 0 .. 2^32 - 1 and its wrap-around are   *)
(* represented; lengths and positions of the (small) files of the model    *)
(* are plain naturals.                                                     *)
(***************************************************************************)
Half == 65536

\* n as u32, for a natural n below 2^31
u32(n) == <<(n \div Half) % Half, n % Half>>
\* u32::MAX
U32_MAX == <<Half - 1, Half - 1>>
\* the natural a u32 stands for (defined for values below 2^31)
u32_nat(x) == x[1] * Half + x[2]
u32_gt(x, y) == x[1] > y[1] \/ (x[1] = y[1] /\ x[2] > y[2])
\* x - 1, wrapping
u32_dec(x) ==
    IF x[2] > 0 THEN <<x[1], x[2] - 1>>
    ELSE IF x[1] > 0 THEN <<x[1] - 1, Half - 1>>
    ELSE U32_MAX
\* x * 4, wrapping
u32_mul4(x) == <<(x[1] * 4 + (x[2] * 4) \div Half) % Half, (x[2] * 4) % Half>>
\* x / 2
u32_div2(x) == <<x[1] \div 2, ((x[1] % 2) * Half + x[2]) \div 2>>
\* x / 4
u32_div4(x) == <<x[1] \div 4, ((x[1] % 4) * Half + x[2]) \div 4>>

RECURSIVE BytesBE(_, _)
\* the w low bytes of the natural n, most significant first
BytesBE(n, w) ==
    IF w = 0 THEN <<>> ELSE Append(BytesBE(n \div 256, w - 1), n % 256)

Reverse(s) == [i \in 1..Len(s) |-> s[Len(s) + 1 - i]]

\* BufMut::put_u32_le / put_u32_be / put_i32_be
put_u32_le(x) == <<x[2] % 256, x[2] \div 256, x[1] % 256, x[1] \div 256>>
put_u32_be(x) == Reverse(put_u32_le(x))
\* two's complement: the bytes of 2^32 + n are the complements of those of -n - 1
put_i32_be(n) ==
    IF n >= 0 THEN BytesBE(n, 4)
    ELSE [i \in 1..4 |-> 255 - BytesBE(-n - 1, 4)[i]]

\* what a loop appends to a buffer, pass by pass, and what it adds to a size
RECURSIVE Flatten(_), Sum(_)
Flatten(seqs) == IF seqs = <<>> THEN <<>> ELSE Head(seqs) \o Flatten(Tail(seqs))
Sum(sizes) == IF sizes = <<>> THEN 0 ELSE Head(sizes) + Sum(Tail(sizes))

(***************************************************************************)
(* Decoding steps in sequence.  A step at position p of a buffer yields    *)
(* Decoded(p', value), or Panicked.  Then(r, K) is the step K on the       *)
(* outcome r of the step before it, unless that panicked; Wrap(r, Variant) *)
(* is the outcome r with its value in the enum variant; Field(r, has,      *)
(* field, D) is the message r.val with the field that D decodes at r.pos,  *)
(* when the flags have it; Repeat(count, r, Pass) is count passes of a     *)
(* loop from r, each on the outcome of the one before.  An Option is a     *)
(* sequence of length 0 or 1.                                              *)
(***************************************************************************)
Panicked == [ok |-> FALSE]
Decoded(p, v) == [ok |-> TRUE, pos |-> p, val |-> v]
Then(r, K(_)) == IF r.ok THEN K(r) ELSE Panicked
Wrap(r, Variant(_)) == IF r.ok THEN Decoded(r.pos, Variant(r.val)) ELSE Panicked
Field(r, has, field, D(_)) ==
    IF ~r.ok THEN Panicked
    ELSE IF ~has THEN r
    ELSE Then(D(r.pos), LAMBDA d : Decoded(d.pos, [r.val EXCEPT ![field] = d.val]))
Repeat(count, r, Pass(_)) ==
    LET after[n \in 0..count] == IF n = 0 THEN r ELSE Then(after[n - 1], Pass)
    IN  after[count]
\* String::from_utf8(..).unwrap() and read_to_string(..).unwrap(): the
\* strings of the model are ASCII, a byte >= 128 fails the UTF-8 check
from_utf8(r) ==
    IF r.ok /\ \A i \in 1..Len(r.val) : r.val[i] < 128 THEN r ELSE Panicked

(***************************************************************************)
(* Message model (src/src/message/mod.rs).  A Value is a record tagged by  *)
(* its variant; a Map is the sequence of its (key, value) entries in       *)
(* insertion order (LinkedHashMap); strings are their UTF-8 bytes.         *)
(***************************************************************************)
Null == [t |-> "Null"]
String(s) == [t |-> "String", s |-> s]
Int32(n) == [t |-> "Int32", n |-> n]
\* 64-bit integers and floats are carried as their bit patterns, most
\* significant byte first
Int64(bits) == [t |-> "Int64", bits |-> bits]
Float32(bits) == [t |-> "Float32", bits |-> bits]
Float64(bits) == [t |-> "Float64", bits |-> bits]
Boolean(b) == [t |-> "Boolean", b |-> b]
Bytes(s) == [t |-> "Bytes", s |-> s]
List(items) == [t |-> "List", list |-> items]
Map(entries) == [t |-> "Map", map |-> entries]
Uuid(s) == [t |-> "Uuid", s |-> s]

Message(properties, body) == [properties |-> properties, body |-> body]

RECURSIVE MapRemove(_, _)
MapRemove(entries, key) ==
    IF entries = <<>> THEN <<>>
    ELSE IF Head(entries)[1] = key THEN MapRemove(Tail(entries), key)
    ELSE <<Head(entries)>> \o MapRemove(Tail(entries), key)

\* a push onto a list of entries: an existing key is kept
MapPush(entries, key, value) == Append(entries, <<key, value>>)
\* LinkedHashMap::insert: an existing key is replaced and moved to the back
MapInsert(entries, key, value) ==
    Append(MapRemove(entries, key), <<key, value>>)

\* MessageBuilder::with_property / with_body
with_property(m, key, value) ==
    Message(MapInsert(m.properties, key, value), m.body)
with_body(m, value) == Message(m.properties, <<value>>)
\* Message::new().build()
EmptyMessage == Message(<<>>, <<>>)

(***************************************************************************)
(* codec::util::Flags (bitflags over i32).                                 *)
(***************************************************************************)
HAS_TIMESTAMP == 1
HAS_HEADERS == 2
HAS_BODY == 4
HAS_EXPIRATION == 8
HAS_CORRELATION_ID == 16
FlagsAll == 31

\* Flags::contains for a single-bit flag
contains(flags, bit) == (flags \div bit) % 2 = 1
\* Flags::from_bits_truncate: the bits outside Flags::all() are dropped
from_bits_truncate(bits) == <<bits[2] % (FlagsAll + 1)>>
\* Flags::from_bits: None when a bit outside Flags::all() is set
\* (bits is a u32 / i32 bit pattern)
from_bits(bits) ==
    IF bits[1] = 0 /\ bits[2] \div (FlagsAll + 1) = 0 THEN <<bits[2]>> ELSE <<>>

(***************************************************************************)
(* BinaryMessageEncoder (src/src/codec/encoder.rs): big-endian.            *)
(***************************************************************************)
\* encode_string; encode_bytes writes the same
encode_string(s) == put_u32_be(u32(Len(s))) \o s

RECURSIVE encode_value(_)
encode_map(entries) ==
    put_u32_be(u32(Len(entries)))
    \o Flatten([i \in 1..Len(entries) |->
                   encode_string(entries[i][1]) \o encode_value(entries[i][2])])
encode_list(items) ==
    put_u32_be(u32(Len(items)))
    \o Flatten([i \in 1..Len(items) |-> encode_value(items[i])])
encode_value(v) ==
    CASE v.t = "Null" -> <<0>>
      [] v.t = "String" -> <<1>> \o encode_string(v.s)
      [] v.t = "Int32" -> <<2>> \o put_i32_be(v.n)
      [] v.t = "Int64" -> <<3>> \o v.bits
      [] v.t = "Float32" -> <<4>> \o v.bits
      [] v.t = "Float64" -> <<5>> \o v.bits
      [] v.t = "Boolean" -> <<6>> \o (IF v.b THEN <<1>> ELSE <<0>>)
      [] v.t = "Bytes" -> <<7>> \o encode_string(v.s)
      [] v.t = "List" -> <<8>> \o encode_list(v.list)
      [] v.t = "Map" -> <<9>> \o encode_map(v.map)
      [] v.t = "Uuid" -> <<10>> \o v.s

encode_message(m) ==
    LET hasHeaders == Len(m.properties) > 0
        hasBody == m.body # <<>>
        flags == (IF hasHeaders THEN HAS_HEADERS ELSE 0)
                 + (IF hasBody THEN HAS_BODY ELSE 0)
    IN  put_i32_be(flags)
        \o (IF hasHeaders THEN encode_map(m.properties) ELSE <<>>)
        \o (IF hasBody THEN encode_value(m.body[1]) ELSE <<>>)

(***************************************************************************)
(* BinaryMessageDecoder (src/src/codec/decoder.rs): little-endian.         *)
(* A decoding step at cursor position p yields Decoded(p', value), or      *)
(* Panicked (buffer underflow in a Buf get, unwrap of None or Err, or the  *)
(* explicit panic! on an unsupported tag).                                 *)
(***************************************************************************)
\* Buf::get_u32::<LittleEndian>
get_u32_le(b, p) ==
    IF p + 4 <= Len(b)
    THEN Decoded(p + 4, <<b[p + 3] + 256 * b[p + 4], b[p + 1] + 256 * b[p + 2]>>)
    ELSE Panicked

\* get_i32::<LittleEndian>
decode_i32(b, p) ==
    Then(get_u32_le(b, p),
         LAMBDA r : Decoded(r.pos, IF r.val[1] >= Half \div 2
                                   THEN (r.val[1] - Half) * Half + r.val[2]
                                   ELSE u32_nat(r.val)))
\* get_i64::<LittleEndian>: the bit pattern, most significant first;
\* decode_f64 reads the same with get_f64
decode_i64(b, p) ==
    IF p + 8 <= Len(b) THEN Decoded(p + 8, Reverse(SubSeq(b, p + 1, p + 8)))
    ELSE Panicked

\* read_to_string over bytes.take(len): the bytes left, at most len of them;
\* the strings of the model are ASCII, a byte >= 128 fails the UTF-8 check
decode_string(b, p) ==
    Then(get_u32_le(b, p),
         LAMBDA len :
            IF len.val[1] = 0 /\ len.pos + len.val[2] <= Len(b)
            THEN from_utf8(Decoded(len.pos + len.val[2],
                                   SubSeq(b, len.pos + 1, len.pos + len.val[2])))
            ELSE from_utf8(Decoded(Len(b), SubSeq(b, len.pos + 1, Len(b)))))

\* the number of rounds of a `for _ in 0..count` loop over buffer b: every
\* round consumes at least one byte, so a count above Len(b) panics within
\* Len(b) + 1 rounds like any larger one
Rounds(count, b) ==
    IF count[1] > 0 \/ count[2] > Len(b) THEN Len(b) + 1 ELSE count[2]

RECURSIVE decode_value(_, _)
\* let count = .., then for _ in 0..count { list.push(decode_value) }
decode_list(b, p) ==
    Then(get_u32_le(b, p), LAMBDA count :
      Repeat(Rounds(count.val, b), Decoded(count.pos, <<>>), LAMBDA list :
        Then(decode_value(b, list.pos), LAMBDA v :
          Decoded(v.pos, Append(list.val, v.val)))))
\* let count = .., then for _ in 0..count { map.insert(key, value) }, the key
\* decoded before the value
decode_map(b, p) ==
    Then(get_u32_le(b, p), LAMBDA count :
      Repeat(Rounds(count.val, b), Decoded(count.pos, <<>>), LAMBDA map :
        Then(decode_string(b, map.pos), LAMBDA k :
          Then(decode_value(b, k.pos), LAMBDA v :
            Decoded(v.pos, MapInsert(map.val, k.val, v.val))))))
decode_value(b, p) ==
    IF p + 1 > Len(b) THEN Panicked
    ELSE CASE b[p + 1] = 0 -> Decoded(p + 1, Null)
           [] b[p + 1] = 1 -> Wrap(decode_string(b, p + 1), String)
           [] b[p + 1] = 2 -> Wrap(decode_i32(b, p + 1), Int32)
           [] b[p + 1] = 3 -> Wrap(decode_i64(b, p + 1), Int64)
           [] b[p + 1] = 4 -> Wrap(decode_i64(b, p + 1), Float64)
           [] b[p + 1] = 5 ->
                IF p + 2 <= Len(b)
                THEN Decoded(p + 2, Boolean(b[p + 2] # 0)) ELSE Panicked
           [] b[p + 1] = 7 -> Wrap(decode_map(b, p + 1), Map)
           [] b[p + 1] = 8 -> Wrap(decode_list(b, p + 1), List)
           [] OTHER -> Panicked

\* decode_message over the whole buffer b: the message and the position the
\* buffer is left at, or Panicked (Flags::from_bits(..).unwrap() included)
decode_message(b) ==
    Then(get_u32_le(b, 0), LAMBDA raw :
      IF from_bits(raw.val) = <<>> THEN Panicked
      ELSE Field(
            Field(Decoded(raw.pos, EmptyMessage),
                  contains(from_bits(raw.val)[1], HAS_HEADERS), "properties",
                  LAMBDA q : decode_map(b, q)),
            contains(from_bits(raw.val)[1], HAS_BODY), "body",
            LAMBDA q : Wrap(decode_value(b, q), LAMBDA x : <<x>>)))

(***************************************************************************)
(* The messages written in the model: Message::new().build(),              *)
(* Message::with_body("Hi").build() and                                    *)
(* Message::with_property("k", 7).with_body("a").build().                  *)
(***************************************************************************)
MsgBody == with_body(EmptyMessage, String(<<72, 105>>))
MsgProp == with_body(with_property(EmptyMessage, <<107>>, Int32(7)), String(<<97>>))
Messages == {EmptyMessage, MsgBody, MsgProp}

(***************************************************************************)
(* BinaryFormatSizeCalculator (src/src/message/mod.rs): the size that       *)
(* FileSegment::write reserves for the encoded message.                    *)
(***************************************************************************)
RECURSIVE visit_value(_)
\* *buffer += 1 for the tag, then the variant: visit_string / visit_bytes add
\* 4 + len, visit_map adds map.len() and each key and value, visit_list adds
\* list.len() and each item
visit_value(v) ==
    1 + CASE v.t = "Null" -> 0
          [] v.t \in {"String", "Bytes"} -> 4 + Len(v.s)
          [] v.t \in {"Int32", "Float32"} -> 4
          [] v.t \in {"Int64", "Float64"} -> 8
          [] v.t = "Boolean" -> 1
          [] v.t = "Map" ->
               Len(v.map) + Sum([i \in 1..Len(v.map) |->
                                    4 + Len(v.map[i][1]) + visit_value(v.map[i][2])])
          [] v.t = "List" ->
               Len(v.list) + Sum([i \in 1..Len(v.list) |-> visit_value(v.list[i])])
          [] v.t = "Uuid" -> 16
\* *buffer += 4, then each property's key and value, then the body
visit_message(m) ==
    4 + Sum([i \in 1..Len(m.properties) |->
                4 + Len(m.properties[i][1]) + visit_value(m.properties[i][2])])
      + (IF m.body # <<>> THEN visit_value(m.body[1]) ELSE 0)

(***************************************************************************)
(* State.                                                                  *)
(*   dir      the segment directory with segment.dat and segment.idx       *)
(*            exists on disk                                               *)
(*   dat, idx the contents of the two files                                *)
(*   handle   "open" while a FileSegment value is alive, "dropped" after   *)
(*            drop(segment), "deleted" after delete()                      *)
(*   datPos, idxPos  the cursors of the two open File handles (u64, kept   *)
(*            as <<hi, lo>> like a u32)                                    *)
(*   it       Option<FileSegmentIter>: the range of the live iterator      *)
(*   ret      the call made last and what it returned                      *)
(* History (not read by any operation):                                    *)
(*   written  the messages passed to write since the files were last empty *)
(*   truncated  truncate() was called since the directory was created      *)
(*   first    per offset, the message write assigned to it first (dropped  *)
(*            once reused is set)                                          *)
(*   reused   some offset has been assigned to a second, different message *)
(*   yielded  what the calls on the live iterator returned, in call order  *)
(*   n0       size() when the live iterator was constructed                *)
(*   modified the segment was written or truncated since then              *)
(*   snapshot the messages the segment held when the live iterator was     *)
(*            constructed                                                  *)
(*   threads  the calls in progress on further handles of the same         *)
(*            directory: for each its position in the call, its locals and *)
(*            what its last call returned                                  *)
(*   stops    how many times the process stopped during a write            *)
(***************************************************************************)
VARIABLES dir, dat, idx, handle, datPos, idxPos, it, ret,
          written, truncated, first, reused, yielded, n0, modified, snapshot,
          threads, stops

vars == <<dir, dat, idx, handle, datPos, idxPos, it, ret,
          written, truncated, first, reused, yielded, n0, modified, snapshot,
          threads, stops>>
files == <<dir, dat, idx>>
cursors == <<datPos, idxPos>>
history == <<written, truncated, first, reused>>
iterator == <<it, yielded, n0, modified, snapshot>>

None == [k |-> "None"]
Some(x) == [k |-> "Some", v |-> x]
\* the call panicked (an unwrap or expect failed)
Panic == [k |-> "Panic"]
Returned(op, arg, val) == [op |-> op, arg |-> arg, val |-> val]

(***************************************************************************)
(* std::fs::File: seek and read_exact.                                     *)
(***************************************************************************)
\* a cursor moved by target from where it is (SeekFrom::Current)
seek_current(pos, target) ==
    <<(pos[1] + target[1] + (pos[2] + target[2]) \div Half) % Half,
      (pos[2] + target[2]) % Half>>
\* dat.seek(SeekFrom::Start(target)) on a handle whose cursor is pos
seek_record(pos, target) == target
\* seek(SeekFrom::End(0))
seek_end(file) == u32(Len(file))
\* read_exact of n bytes at cursor pos finds them all
Within(pos, n, file) == pos[1] = 0 /\ pos[2] + n <= Len(file)
\* the cursor after read_exact of n bytes at pos (at the end of the file
\* when the file ran out before n bytes were read)
read_exact_pos(pos, n, file) ==
    IF Within(pos, n, file) THEN <<0, pos[2] + n>>
    ELSE IF pos[1] = 0 /\ pos[2] < Len(file) THEN seek_end(file)
    ELSE pos
\* the n bytes read_exact reads at pos
read_exact(pos, n, file) == SubSeq(file, pos[2] + 1, pos[2] + n)

(***************************************************************************)
(* FileSegment (src/src/topic/mod.rs).  size and read are given as the     *)
(* functions of the files and cursors that the calls compute; the actions  *)
(* Size and Read below make the calls.                                     *)
(***************************************************************************)
\* size() over an index file: seek(End(0)) as u32 / 4
size_of(index) == u32_div4(seek_end(index))
\* what size() returns in the current state
size == size_of(idx)

\* the range check without its size() == 0 half: size() - 1 wraps at 0
out_of_range_wrapping(offset, index) == u32_gt(offset, u32_dec(size_of(index)))
\* the range check that opens read
out_of_range(offset, index) ==
    size_of(index) = u32(0) \/ u32_gt(offset, u32_dec(size_of(index)))

\* Some(decode_message(..)) for the outcome m of decode_message
decoded(m) == IF m.ok THEN Some(m.val) ELSE Panic

\* read(offset) over the files index and data with the file cursors at ipos
\* and dpos: the value returned and the cursors left behind
read_from(offset, index, data, ipos, dpos) ==
    IF out_of_range(offset, index)
    THEN [val |-> None, idxPos |-> seek_end(index), datPos |-> dpos]
    ELSE
    \* idx.seek(SeekFrom::Start(offset * 4))
    LET entry == u32_mul4(offset)
        ipos2 == read_exact_pos(entry, 4, index)
    IN  IF ~Within(entry, 4, index)
        THEN [val |-> Panic, idxPos |-> ipos2, datPos |-> dpos]
        ELSE
        LET message_start == get_u32_le(read_exact(entry, 4, index), 0).val
            record == seek_record(dpos, message_start)
            dpos2 == read_exact_pos(record, 4, data)
        IN  IF ~Within(record, 4, data)
            THEN [val |-> Panic, idxPos |-> ipos2, datPos |-> dpos2]
            ELSE
            LET message_size == get_u32_le(read_exact(record, 4, data), 0).val
                fits == message_size[1] = 0
                        /\ Within(dpos2, message_size[2], data)
                dpos3 == IF message_size[1] = 0
                         THEN read_exact_pos(dpos2, message_size[2], data)
                         ELSE seek_end(data)
            IN  IF ~fits
                THEN [val |-> Panic, idxPos |-> ipos2, datPos |-> dpos3]
                ELSE
                [val |-> decoded(decode_message(
                             read_exact(dpos2, message_size[2], data))),
                 idxPos |-> ipos2, datPos |-> dpos3]

\* what read(offset) returns in the current state
read(offset) == read_from(offset, idx, dat, idxPos, datPos).val
\* what read(offset) returns in the state a step leads to
read_after(offset) == read_from(offset, idx', dat', idxPos', datPos').val

\* the position of the data cursor once the length prefix is written
message_start_after_header(file) == u32(Len(file) + 4)
\* the position write records for the new record: dat.seek(End(0))
message_start_of(file) == seek_end(file)
\* a record written over the start of the data file instead of appended
write_dat_at_start(message) ==
    LET contents == encode_message(message)
        record == put_u32_le(u32(Len(contents))) \o contents
    IN  record \o SubSeq(dat, Len(record) + 1, Len(dat))
\* the data file after write(message): header, then contents, appended
write_dat(message) ==
    LET contents == encode_message(message)
        header == put_u32_le(u32(Len(contents)))
    IN  dat \o header \o contents
\* the index file after write(message)
write_idx(message) == idx \o put_u32_le(message_start_of(dat))

\* the further handles: FileSegment is not Sync (its files are in RefCells),
\* so calls run concurrently only on separate handles of one directory
Threads == {1, 2}
\* a handle with no call in progress; last is what its last call returned
Idle(last) == [pc |-> "idle", last |-> last]

Init ==
    /\ dir = TRUE /\ dat = <<>> /\ idx = <<>>
    /\ handle = "open"
    /\ datPos = u32(0) /\ idxPos = u32(0)
    /\ it = <<>>
    /\ ret = Returned("with_directory", <<>>, None)
    /\ written = <<>> /\ truncated = FALSE /\ first = <<>> /\ reused = FALSE
    /\ yielded = <<>> /\ n0 = 0 /\ modified = FALSE /\ snapshot = <<>>
    /\ threads = [t \in Threads |-> Idle(Returned("none", <<>>, None))]
    /\ stops = 0

\* with_directory opening both files with truncate(true)
WithDirectoryTruncating ==
    /\ handle # "open"
    /\ handle' = "open"
    /\ dir' = TRUE
    /\ dat' = <<>> /\ idx' = <<>>
    /\ datPos' = u32(0) /\ idxPos' = u32(0)
    /\ ret' = Returned("with_directory", <<>>, None)
    /\ UNCHANGED <<history, iterator>>
    /\ UNCHANGED <<threads, stops>>

\* FileSegment::with_directory on the directory of the model, when no
\* FileSegment value is alive: create_dir_all, then both files opened with
\* append, read, create (never truncate)
WithDirectory ==
    /\ handle # "open"
    /\ handle' = "open"
    /\ dir' = TRUE
    /\ dat' = dat /\ idx' = idx
    /\ datPos' = u32(0) /\ idxPos' = u32(0)
    /\ ret' = Returned("with_directory", <<>>, None)
    /\ UNCHANGED <<history, iterator>>
    /\ UNCHANGED <<threads, stops>>

\* drop(segment): the borrow checker allows it only when no iterator is alive
Drop ==
    /\ handle = "open" /\ it = <<>>
    /\ handle' = "dropped"
    /\ datPos' = u32(0) /\ idxPos' = u32(0)
    /\ ret' = Returned("drop", <<>>, None)
    /\ UNCHANGED <<files, history, iterator>>
    /\ UNCHANGED <<threads, stops>>

\* a delete that removes the two files and leaves the directory
DeleteFilesOnly ==
    /\ handle = "open" /\ it = <<>>
    /\ handle' = "deleted"
    /\ dir' = TRUE /\ dat' = <<>> /\ idx' = <<>>
    /\ datPos' = u32(0) /\ idxPos' = u32(0)
    /\ ret' = Returned("delete", <<>>, None)
    /\ written' = <<>> /\ truncated' = FALSE
    /\ first' = <<>> /\ reused' = FALSE
    /\ UNCHANGED iterator
    /\ UNCHANGED <<threads, stops>>

\* delete(self)
Delete ==
    /\ handle = "open" /\ it = <<>>
    /\ handle' = "deleted"
    /\ dir' = FALSE /\ dat' = <<>> /\ idx' = <<>>
    /\ datPos' = u32(0) /\ idxPos' = u32(0)
    /\ ret' = Returned("delete", <<>>, None)
    /\ written' = <<>> /\ truncated' = FALSE
    /\ first' = <<>> /\ reused' = FALSE
    /\ UNCHANGED iterator
    /\ UNCHANGED <<threads, stops>>

\* truncate() that resets the data file and leaves the index file as it is
TruncateDataOnly ==
    /\ handle = "open"
    /\ dat' = <<>>
    /\ ret' = Returned("truncate", <<>>, None)
    /\ written' = <<>> /\ truncated' = TRUE
    /\ modified' = TRUE
    /\ UNCHANGED <<dir, idx, handle, cursors, first, reused, it, yielded, n0, snapshot>>
    /\ UNCHANGED <<threads, stops>>

\* truncate(): set_len(0) on both files; the cursors stay where they are
Truncate ==
    /\ handle = "open"
    /\ idx' = <<>> /\ dat' = <<>>
    /\ ret' = Returned("truncate", <<>>, None)
    /\ written' = <<>> /\ truncated' = TRUE
    /\ modified' = TRUE
    /\ UNCHANGED <<dir, handle, cursors, first, reused, it, yielded, n0, snapshot>>
    /\ UNCHANGED <<threads, stops>>

\* write(message)
Write(message) ==
    /\ handle = "open"
    /\ Len(idx) \div 4 < MaxSize
    /\ dat' = write_dat(message)
    /\ idx' = write_idx(message)
    /\ datPos' = seek_end(dat') /\ idxPos' = seek_end(idx')
    /\ ret' = Returned("write", message, None)
    /\ written' = Append(written, message)
    /\ LET offset == Len(idx) \div 4 + 1
       IN  IF reused THEN UNCHANGED <<first, reused>>
           ELSE IF offset > Len(first)
           THEN first' = Append(first, message) /\ UNCHANGED reused
           ELSE IF first[offset] = message THEN UNCHANGED <<first, reused>>
           ELSE first' = <<>> /\ reused' = TRUE
    /\ modified' = TRUE
    /\ UNCHANGED <<dir, handle, truncated, it, yielded, n0, snapshot>>
    /\ UNCHANGED <<threads, stops>>

\* read(offset)
Read(offset) ==
    /\ handle = "open"
    /\ LET r == read_from(offset, idx, dat, idxPos, datPos)
       IN  /\ ret' = Returned("read", offset, r.val)
           /\ idxPos' = r.idxPos /\ datPos' = r.datPos
    /\ UNCHANGED <<files, handle, history, iterator>>
    /\ UNCHANGED <<threads, stops>>

\* size()
Size ==
    /\ handle = "open"
    /\ ret' = Returned("size", <<>>, Some(size))
    /\ idxPos' = seek_end(idx)
    /\ UNCHANGED <<files, handle, datPos, history, iterator>>
    /\ UNCHANGED <<threads, stops>>

(***************************************************************************)
(* FileSegmentIter.                                                        *)
(***************************************************************************)
\* the calls on one iterator that the model follows

\* what next / next_back make of read(index)
item(index, val) == IF val.k = "Some" THEN Some(<<index, val.v>>) ELSE val

\* iter(): a new iterator over 0 .. size(); an earlier one is dropped
Iter ==
    /\ handle = "open"
    /\ it' = <<[start |-> 0, end |-> u32_nat(size)]>>
    /\ idxPos' = seek_end(idx)
    /\ yielded' = <<>> /\ n0' = u32_nat(size) /\ modified' = FALSE
    /\ snapshot' = written
    /\ ret' = Returned("iter", <<>>, None)
    /\ UNCHANGED <<files, handle, datPos, history>>
    /\ UNCHANGED <<threads, stops>>

\* the iterator goes out of scope
IterDrop ==
    /\ it # <<>>
    /\ it' = <<>>
    /\ yielded' = <<>> /\ n0' = 0 /\ modified' = FALSE /\ snapshot' = <<>>
    /\ ret' = Returned("drop_iter", <<>>, None)
    /\ UNCHANGED <<files, handle, cursors, history>>
    /\ UNCHANGED <<threads, stops>>

\* Iterator::next
IterNext ==
    /\ it # <<>> /\ Len(yielded) < MaxSize + 1
    /\ LET range == it[1]
       IN  IF range.start < range.end
           THEN LET r == read_from(u32(range.start), idx, dat, idxPos, datPos)
                    result == Returned("next", <<>>, item(range.start, r.val))
                IN  /\ it' = <<[range EXCEPT !.start = range.start + 1]>>
                    /\ ret' = result
                    /\ yielded' = Append(yielded, result)
                    /\ idxPos' = r.idxPos /\ datPos' = r.datPos
           ELSE /\ UNCHANGED <<it, cursors>>
                /\ ret' = Returned("next", <<>>, None)
                /\ yielded' = Append(yielded, Returned("next", <<>>, None))
    /\ UNCHANGED <<files, handle, history, n0, modified, snapshot>>
    /\ UNCHANGED <<threads, stops>>

\* Iterator::nth(n): Range::nth takes start + n when it is below end and
\* moves start past it, and otherwise empties the range (start = end)
IterNth(n) ==
    /\ it # <<>> /\ Len(yielded) < MaxSize + 1
    /\ LET range == it[1]
       IN  IF range.start + n < range.end
           THEN LET r == read_from(u32(range.start + n), idx, dat, idxPos, datPos)
                    result == Returned("nth", n, item(range.start + n, r.val))
                IN  /\ it' = <<[range EXCEPT !.start = range.start + n + 1]>>
                    /\ ret' = result
                    /\ yielded' = Append(yielded, result)
                    /\ idxPos' = r.idxPos /\ datPos' = r.datPos
           ELSE /\ it' = <<[range EXCEPT !.start = range.end]>>
                /\ ret' = Returned("nth", n, None)
                /\ yielded' = Append(yielded, Returned("nth", n, None))
                /\ UNCHANGED cursors
    /\ UNCHANGED <<files, handle, history, n0, modified, snapshot>>
    /\ UNCHANGED <<threads, stops>>

\* DoubleEndedIterator::next_back
IterNextBack ==
    /\ it # <<>> /\ Len(yielded) < MaxSize + 1
    /\ LET range == it[1]
       IN  IF range.start < range.end
           THEN LET r == read_from(u32(range.end - 1), idx, dat, idxPos, datPos)
                    result == Returned("next_back", <<>>,
                                       item(range.end - 1, r.val))
                IN  /\ it' = <<[range EXCEPT !.end = range.end - 1]>>
                    /\ ret' = result
                    /\ yielded' = Append(yielded, result)
                    /\ idxPos' = r.idxPos /\ datPos' = r.datPos
           ELSE /\ UNCHANGED <<it, cursors>>
                /\ ret' = Returned("next_back", <<>>, None)
                /\ yielded' = Append(yielded, Returned("next_back", <<>>, None))
    /\ UNCHANGED <<files, handle, history, n0, modified, snapshot>>
    /\ UNCHANGED <<threads, stops>>

\* the offsets read is called with: 0 .. MaxSize and u32::MAX
Offsets == {u32(n) : n \in 0..MaxSize} \cup {U32_MAX}

(***************************************************************************)
(* Spec: one FileSegment handle at a time on the directory, used through   *)
(* with_directory, drop, delete, truncate, write, read, size and iter;     *)
(* drop and delete take the segment by value, so no iterator borrows it    *)
(* then.                                                                   *)
(***************************************************************************)
Spec ==
    Init /\ [][\/ WithDirectory
               \/ Drop
               \/ Delete
               \/ Truncate
               \/ \E message \in Messages : Write(message)
               \/ \E offset \in Offsets : Read(offset)
               \/ Size
               \/ Iter
               \/ IterDrop]_vars

(***************************************************************************)
(* SpecLive: a segment that is written and truncated while an iterator     *)
(* over it is consumed from both ends with next, nth and next_back         *)
(* (Iterator::skip(n) is nth(n) on its first call, next afterwards).       *)
(***************************************************************************)
SpecLive ==
    Init /\ [][\/ Truncate
               \/ \E message \in {EmptyMessage, MsgBody} : Write(message)
               \/ Iter
               \/ IterNext
               \/ \E n \in 0..MaxSize : IterNth(n)
               \/ IterNextBack]_vars

(***************************************************************************)
(* SpecTruncate: SpecLive for a segment of Message::new().build() records. *)
(***************************************************************************)
SpecTruncate ==
    Init /\ [][\/ Truncate
               \/ Write(EmptyMessage)
               \/ Iter
               \/ IterNext
               \/ \E n \in 0..MaxSize : IterNth(n)
               \/ IterNextBack]_vars

(***************************************************************************)
(* The message model of src/src/message/message.rs, which the codecs of    *)
(* src/src/codec/simple.rs and src/src/codec/message_codec.rs work on.     *)
(* Its Value variants Null, Str, I32, I64, F32, F64, Bool, Bytes, List,    *)
(* Map and Uuid are the records Null, String(..), Int32(..), Int64(..),    *)
(* Float32(..), Float64(..), Boolean(..), Bytes(..), List(..), Map(..) and *)
(* Uuid(..) above; a Map is the sequence of its (Key, Value) entries in    *)
(* insertion order.  A Timestamp (DateTime<UTC>) is its seconds since the  *)
(* epoch, as the 8 bytes of the i64, and its nanoseconds in the second.    *)
(***************************************************************************)
DateTime(secs, nanos) == [secs |-> secs, nanos |-> nanos]
Timestamp(ts) == [t |-> "Timestamp", ts |-> ts]
Key_Str(s) == [t |-> "Key::Str", s |-> s]
Key_I32(n) == [t |-> "Key::I32", n |-> n]

\* message::message::Message; the Option fields are sequences of length 0 or 1
message_Message(timestamp, expiration, correlation_id, headers, body) ==
    [timestamp |-> timestamp, expiration |-> expiration,
     correlation_id |-> correlation_id, headers |-> headers, body |-> body]
\* Message::new()
message_new == message_Message(<<>>, <<>>, <<>>, <<>>, <<>>)

\* the Flags that encode_message / visit_message compute for a message
message_flags(m) ==
    (IF m.timestamp # <<>> THEN HAS_TIMESTAMP ELSE 0)
    + (IF m.expiration # <<>> THEN HAS_EXPIRATION ELSE 0)
    + (IF m.correlation_id # <<>> THEN HAS_CORRELATION_ID ELSE 0)
    + (IF Len(m.headers) > 0 THEN HAS_HEADERS ELSE 0)
    + (IF m.body # <<>> THEN HAS_BODY ELSE 0)

(***************************************************************************)
(* BinaryMessageCodec as MessageEncoder (src/src/codec/simple.rs).         *)
(***************************************************************************)
\* encode_string; encode_bytes writes the same
simple_encode_string(value) == put_i32_be(Len(value)) \o value
\* encode_timestamp: timestamp(), then timestamp_subsec_nanos()
simple_encode_timestamp(value) == value.secs \o put_i32_be(value.nanos)
simple_encode_key(key) ==
    IF key.t = "Key::Str" THEN <<1>> \o simple_encode_string(key.s)
    ELSE <<2>> \o put_i32_be(key.n)

RECURSIVE simple_encode_value(_)
simple_encode_map(map) ==
    put_i32_be(Len(map))
    \o Flatten([i \in 1..Len(map) |->
                   simple_encode_key(map[i][1]) \o simple_encode_value(map[i][2])])
simple_encode_list(list) ==
    put_i32_be(Len(list))
    \o Flatten([i \in 1..Len(list) |-> simple_encode_value(list[i])])
simple_encode_value(value) ==
    CASE value.t = "Null" -> <<0>>
      [] value.t = "String" -> <<1>> \o simple_encode_string(value.s)
      [] value.t = "Int32" -> <<2>> \o put_i32_be(value.n)
      [] value.t = "Int64" -> <<3>> \o value.bits
      [] value.t = "Float32" -> <<4>> \o value.bits
      [] value.t = "Float64" -> <<5>> \o value.bits
      [] value.t = "Boolean" -> <<6>> \o (IF value.b THEN <<1>> ELSE <<0>>)
      [] value.t = "Bytes" -> <<7>> \o simple_encode_string(value.s)
      [] value.t = "Map" -> <<8>> \o simple_encode_map(value.map)
      [] value.t = "List" -> <<9>> \o simple_encode_list(value.list)
      [] value.t = "Uuid" -> <<10>> \o value.s
      [] value.t = "Timestamp" -> <<11>> \o simple_encode_timestamp(value.ts)

simple_encode_message(message) ==
    put_i32_be(message_flags(message))
    \o (IF message.timestamp # <<>>
        THEN simple_encode_timestamp(message.timestamp[1]) ELSE <<>>)
    \o (IF message.expiration # <<>>
        THEN simple_encode_timestamp(message.expiration[1]) ELSE <<>>)
    \o (IF message.correlation_id # <<>> THEN message.correlation_id[1] ELSE <<>>)
    \o (IF Len(message.headers) > 0
        THEN simple_encode_map(message.headers) ELSE <<>>)
    \o (IF message.body # <<>>
        THEN simple_encode_value(message.body[1]) ELSE <<>>)

(***************************************************************************)
(* BinaryMessageCodec as MessageDecoder (src/src/codec/simple.rs).  A      *)
(* decoding step at position p of buffer b yields Decoded(p', value) or    *)
(* Panicked (Buf::get_* past the end, unwrap, expect, panic!).             *)
(***************************************************************************)
\* Buf::get_i32_be
get_i32_be(b, p) ==
    IF p + 4 <= Len(b)
    THEN Decoded(p + 4,
                 (IF b[p + 1] >= 128 THEN b[p + 1] - 256 ELSE b[p + 1]) * 16777216
                 + b[p + 2] * 65536 + b[p + 3] * 256 + b[p + 4])
    ELSE Panicked
\* w bytes that must all be there: Buf::get_i64_be / get_f64_be (8) and
\* get_f32_be (4), kept as the bytes; the 16 bytes Uuid::from_bytes accepts
get_bits_be(b, p, w) ==
    IF p + w <= Len(b) THEN Decoded(p + w, SubSeq(b, p + 1, p + w)) ELSE Panicked
\* decode_bytes: buffer.take(len).collect() takes at most len bytes, fewer
\* when the buffer ends; a negative i32 cast to usize is above any length
simple_decode_bytes(b, p) ==
    Then(get_i32_be(b, p),
         LAMBDA len : IF len.val < 0 \/ len.pos + len.val > Len(b)
                      THEN Decoded(Len(b), SubSeq(b, len.pos + 1, Len(b)))
                      ELSE Decoded(len.pos + len.val,
                                   SubSeq(b, len.pos + 1, len.pos + len.val)))
simple_decode_string(b, p) == from_utf8(simple_decode_bytes(b, p))
\* UTC.timestamp(secs, nsecs as u32) of the 12 bytes at p: panics unless
\* nsecs < 2,000,000,000 and the date is representable (years -262144 to
\* 262143: |secs| below 2^43)
simple_decode_timestamp(b, p) ==
    Then(get_bits_be(b, p, 8), LAMBDA secs :
      Then(get_i32_be(b, p + 8), LAMBDA nsecs :
        IF /\ 0 <= nsecs.val /\ nsecs.val < 2000000000
           /\ \/ secs.val[1] = 0 /\ secs.val[2] = 0 /\ secs.val[3] < 8
              \/ secs.val[1] = 255 /\ secs.val[2] = 255 /\ secs.val[3] >= 248
        THEN Decoded(p + 12, DateTime(secs.val, nsecs.val))
        ELSE Panicked))
simple_decode_key(b, p) ==
    IF p + 1 > Len(b) THEN Panicked
    ELSE CASE b[p + 1] = 1 -> Wrap(simple_decode_string(b, p + 1), Key_Str)
           [] b[p + 1] = 2 -> Wrap(get_i32_be(b, p + 1), Key_I32)
           [] OTHER -> Panicked

\* for _ in 0..count, count an i32, over the bytes left in the buffer: a
\* round takes at least `least` bytes (1 for a value: its tag; 6 for a map
\* entry: key tag, four bytes of key, value tag) or panics, so the rounds
\* after the first that cannot be served are never reached
rounds(count, left, least) ==
    IF count <= 0 THEN 0
    ELSE IF count > left \div least THEN left \div least + 1
    ELSE count

RECURSIVE simple_decode_value(_, _)
\* let count = .., then for _ in 0..count { list.push(decode_value) }
simple_decode_list(b, p) ==
    Then(get_i32_be(b, p), LAMBDA count :
      Repeat(rounds(count.val, Len(b) - count.pos, 1), Decoded(count.pos, <<>>), LAMBDA list :
        Then(simple_decode_value(b, list.pos), LAMBDA v :
          Decoded(v.pos, Append(list.val, v.val)))))
\* let count = .., then for _ in 0..count { map.insert(key, value) }, the key
\* decoded before the value
simple_decode_map(b, p) ==
    Then(get_i32_be(b, p), LAMBDA count :
      Repeat(rounds(count.val, Len(b) - count.pos, 6), Decoded(count.pos, <<>>), LAMBDA map :
        Then(simple_decode_key(b, map.pos), LAMBDA k :
          Then(simple_decode_value(b, k.pos), LAMBDA v :
            Decoded(v.pos, MapInsert(map.val, k.val, v.val))))))
simple_decode_value(b, p) ==
    IF p + 1 > Len(b) THEN Panicked
    ELSE CASE b[p + 1] = 0 -> Decoded(p + 1, Null)
           [] b[p + 1] = 1 -> Wrap(simple_decode_string(b, p + 1), String)
           [] b[p + 1] = 2 -> Wrap(get_i32_be(b, p + 1), Int32)
           [] b[p + 1] = 3 -> Wrap(get_bits_be(b, p + 1, 8), Int64)
           [] b[p + 1] = 4 -> Wrap(get_bits_be(b, p + 1, 4), Float32)
           [] b[p + 1] = 5 -> Wrap(get_bits_be(b, p + 1, 8), Float64)
           [] b[p + 1] = 6 ->
                IF p + 2 <= Len(b)
                THEN Decoded(p + 2, Boolean(b[p + 2] # 0)) ELSE Panicked
           [] b[p + 1] = 7 -> Wrap(simple_decode_bytes(b, p + 1), Bytes)
           [] b[p + 1] = 8 -> Wrap(simple_decode_list(b, p + 1), List)
           [] b[p + 1] = 9 -> Wrap(simple_decode_map(b, p + 1), Map)
           [] b[p + 1] = 10 -> Wrap(get_bits_be(b, p + 1, 16), Uuid)
           [] b[p + 1] = 11 -> Wrap(simple_decode_timestamp(b, p + 1), Timestamp)
           [] OTHER -> Panicked

\* Flags::from_bits(i32).expect(..), then the fields in the order of the
\* code: the message and the position the buffer is left at, or Panicked
simple_decode_message(b) ==
    Then(get_i32_be(b, 0), LAMBDA flags :
      IF from_bits(<<b[1] * 256 + b[2], b[3] * 256 + b[4]>>) = <<>> THEN Panicked
      ELSE
      Field(
       Field(
        Field(
         Field(
          Field(Decoded(flags.pos, message_new),
                contains(flags.val, HAS_TIMESTAMP), "timestamp",
                LAMBDA q : Wrap(simple_decode_timestamp(b, q), LAMBDA x : <<x>>)),
          contains(flags.val, HAS_EXPIRATION), "expiration",
          LAMBDA q : Wrap(simple_decode_timestamp(b, q), LAMBDA x : <<x>>)),
         contains(flags.val, HAS_CORRELATION_ID), "correlation_id",
         LAMBDA q : Wrap(get_bits_be(b, q, 16), LAMBDA x : <<x>>)),
        contains(flags.val, HAS_HEADERS), "headers",
        LAMBDA q : simple_decode_map(b, q)),
       contains(flags.val, HAS_BODY), "body",
       LAMBDA q : Wrap(simple_decode_value(b, q), LAMBDA x : <<x>>)))

(***************************************************************************)
(* The messages the codecs are applied to: every Key and Value variant,    *)
(* nested List and Map values, and every combination of the optional       *)
(* fields.                                                                 *)
(***************************************************************************)
Values ==
    {Null, String(<<72, 105>>), Int32(7), Int32(-2),
     Int64(<<0, 0, 0, 0, 0, 0, 0, 9>>), Float32(<<63, 128, 0, 0>>),
     Float64(<<63, 240, 0, 0, 0, 0, 0, 0>>), Boolean(TRUE), Boolean(FALSE),
     Bytes(<<1, 2>>), Uuid(<<1, 2, 3, 4, 5, 6, 7, 8, 9, 10, 11, 12, 13, 14, 15, 16>>),
     Timestamp(DateTime(<<0, 0, 0, 0, 0, 0, 0, 42>>, 123456789)),
     List(<<>>), List(<<Int32(7)>>), List(<<String(<<72, 105>>), Null>>),
     Map(<<>>), Map(<< <<Key_Str(<<107>>), Int32(7)>> >>),
     Map(<< <<Key_I32(1), List(<<Null>>)>>, <<Key_Str(<<107>>), Boolean(TRUE)>> >>),
     List(<<Map(<< <<Key_I32(1), Null>> >>), List(<<>>)>>)}
CodecMessages ==
    {message_Message(ts, ex, id, h, body) :
        ts \in {<<>>, <<DateTime(<<0, 0, 0, 0, 0, 0, 0, 42>>, 123456789)>>},
        ex \in {<<>>, <<DateTime(<<0, 0, 0, 0, 0, 0, 1, 0>>, 0)>>},
        id \in {<<>>, << <<1, 2, 3, 4, 5, 6, 7, 8, 9, 10, 11, 12, 13, 14, 15, 16>> >>},
        h \in {<<>>,
               << <<Key_Str(<<107>>), Int32(7)>> >>,
               << <<Key_I32(1), List(<<Int32(7)>>)>>, <<Key_Str(<<107>>), Null>> >>},
        body \in {<<>>} \cup {<<v>> : v \in Values}}

(***************************************************************************)
(* The codec of src/src/codec/simple.rs applied to those messages:         *)
(* encode_message into an empty buffer, then decode_message of the bytes.  *)
(* ret holds the last call, its argument and what it returned; a decode    *)
(* returns the message and the position the buffer is left at.             *)
(***************************************************************************)
SimpleEncode(message) ==
    /\ ret' = Returned("simple::encode_message", message,
                       simple_encode_message(message))
    /\ UNCHANGED <<files, handle, cursors, history, iterator>>
    /\ UNCHANGED <<threads, stops>>

SimpleDecode ==
    /\ ret.op = "simple::encode_message"
    /\ ret' = Returned("simple::decode_message", ret.val,
                       simple_decode_message(ret.val))
    /\ UNCHANGED <<files, handle, cursors, history, iterator>>
    /\ UNCHANGED <<threads, stops>>

\* the values of the flags field: every combination of the five flags, and
\* values with a bit outside them (bit 5, bit 6, bit 30, the sign bit)
FlagBits == 0..FlagsAll \cup {32, 36, 64, 95, 1073741824, 2147483647, -1, -2147483644}

\* decode_message on an encoded message whose flags field reads bits; the
\* messages taken are those without a body and those with an Int32 body
SimpleDecodeFlags(bits) ==
    /\ ret.op = "simple::encode_message"
    /\ ret.arg.body \in {<<>>, <<Int32(7)>>}
    /\ ret' = Returned("simple::decode_flags",
                       put_i32_be(bits) \o SubSeq(ret.val, 5, Len(ret.val)),
                       simple_decode_message(
                           put_i32_be(bits) \o SubSeq(ret.val, 5, Len(ret.val))))
    /\ UNCHANGED <<files, handle, cursors, history, iterator>>
    /\ UNCHANGED <<threads, stops>>

\* let mut message = Message::new(); ret.arg lists the insertions made
MessageNew ==
    /\ ret' = Returned("Message::new", <<>>, message_new)
    /\ UNCHANGED <<files, handle, cursors, history, iterator>>
    /\ UNCHANGED <<threads, stops>>

\* message.headers_mut().insert(key, value)
HeadersInsert(key, value) ==
    /\ ret.op \in {"Message::new", "headers_mut().insert"}
    /\ Len(ret.arg) < MaxInserts
    /\ ret' = Returned("headers_mut().insert", Append(ret.arg, <<key, value>>),
                       [ret.val EXCEPT !.headers = MapInsert(@, key, value)])
    /\ UNCHANGED <<files, handle, cursors, history, iterator>>
    /\ UNCHANGED <<threads, stops>>

SpecSimple ==
    Init /\ [][\/ \E message \in CodecMessages : SimpleEncode(message)
               \/ SimpleDecode
               \/ \E bits \in FlagBits : SimpleDecodeFlags(bits)
               \/ MessageNew
               \/ \E key \in {Key_Str(<<107>>), Key_Str(<<106>>), Key_I32(1)},
                     value \in {Null, Int32(7)} : HeadersInsert(key, value)]_vars

(***************************************************************************)
(* SizeCalculator (src/src/codec/message_codec.rs): each visit_* adds to   *)
(* the i32 it is handed; the operators give what is added.  visit_str and  *)
(* visit_bytes add 4 and the length, visit_i32 and visit_f32 4, visit_i64  *)
(* and visit_f64 8, visit_bool 1, visit_uuid 16, visit_timestamp 12.       *)
(***************************************************************************)
SizeCalculator_visit_key(key) ==
    1 + (IF key.t = "Key::Str" THEN 4 + Len(key.s) ELSE 4)

RECURSIVE SizeCalculator_visit_value(_)
SizeCalculator_visit_map(value) ==
    4 + Sum([i \in 1..Len(value) |->
                SizeCalculator_visit_key(value[i][1])
                + SizeCalculator_visit_value(value[i][2])])
SizeCalculator_visit_list(list) ==
    4 + Sum([i \in 1..Len(list) |-> SizeCalculator_visit_value(list[i])])
SizeCalculator_visit_value(value) ==
    1 + CASE value.t = "Null" -> 0
          [] value.t = "String" -> 4 + Len(value.s)
          [] value.t = "Int32" -> 4
          [] value.t = "Int64" -> 8
          [] value.t = "Float32" -> 4
          [] value.t = "Float64" -> 8
          [] value.t = "Boolean" -> 1
          [] value.t = "Bytes" -> 4 + Len(value.s)
          [] value.t = "Map" -> SizeCalculator_visit_map(value.map)
          [] value.t = "List" -> SizeCalculator_visit_list(value.list)
          [] value.t = "Uuid" -> 16
          [] value.t = "Timestamp" -> 12
SizeCalculator_visit_message(message) ==
    4
    + (IF message.timestamp # <<>> THEN 12 ELSE 0)
    + (IF message.expiration # <<>> THEN 12 ELSE 0)
    + (IF message.correlation_id # <<>> THEN 16 ELSE 0)
    + (IF Len(message.headers) > 0
       THEN SizeCalculator_visit_map(message.headers) ELSE 0)
    + (IF message.body # <<>>
       THEN SizeCalculator_visit_value(message.body[1]) ELSE 0)

(***************************************************************************)
(* Encoder (src/src/codec/message_codec.rs): each visit_* appends to the   *)
(* BytesMut it is handed; the operators give the bytes appended.           *)
(***************************************************************************)
\* visit_str; visit_bytes appends the same
Encoder_visit_str(value) == put_u32_be(u32(Len(value))) \o value
\* timestamp(), then timestamp_subsec_millis()
Encoder_visit_timestamp(value) ==
    value.secs \o put_i32_be(value.nanos \div 1000000)
\* no tag byte is written for a key
Encoder_visit_key(key) ==
    IF key.t = "Key::Str" THEN Encoder_visit_str(key.s) ELSE put_i32_be(key.n)

RECURSIVE Encoder_visit_value(_)
Encoder_visit_map(map) ==
    put_i32_be(Len(map))
    \o Flatten([i \in 1..Len(map) |->
                   Encoder_visit_key(map[i][1]) \o Encoder_visit_value(map[i][2])])
Encoder_visit_list(list) ==
    put_i32_be(Len(list))
    \o Flatten([i \in 1..Len(list) |-> Encoder_visit_value(list[i])])
Encoder_visit_value(value) ==
    CASE value.t = "Null" -> <<0>>
      [] value.t = "String" -> <<1>> \o Encoder_visit_str(value.s)
      [] value.t = "Int32" -> <<2>> \o put_i32_be(value.n)
      [] value.t = "Int64" -> <<3>> \o value.bits
      [] value.t = "Float32" -> <<4>> \o value.bits
      [] value.t = "Float64" -> <<5>> \o value.bits
      [] value.t = "Boolean" -> <<6>> \o (IF value.b THEN <<1>> ELSE <<0>>)
      [] value.t = "Bytes" -> <<7>> \o Encoder_visit_str(value.s)
      [] value.t = "Map" -> <<8>> \o Encoder_visit_map(value.map)
      [] value.t = "List" -> <<9>> \o Encoder_visit_list(value.list)
      [] value.t = "Uuid" -> <<10>> \o value.s
      [] value.t = "Timestamp" -> <<11>> \o Encoder_visit_timestamp(value.ts)
Encoder_visit_message(message) ==
    put_i32_be(message_flags(message))
    \o (IF message.timestamp # <<>>
        THEN Encoder_visit_timestamp(message.timestamp[1]) ELSE <<>>)
    \o (IF message.expiration # <<>>
        THEN Encoder_visit_timestamp(message.expiration[1]) ELSE <<>>)
    \o (IF message.correlation_id # <<>> THEN message.correlation_id[1] ELSE <<>>)
    \o (IF Len(message.headers) > 0
        THEN Encoder_visit_map(message.headers) ELSE <<>>)
    \o (IF message.body # <<>>
        THEN Encoder_visit_value(message.body[1]) ELSE <<>>)

(***************************************************************************)
(* ZeroCursor and Decoder (src/src/codec/message_codec.rs).  The cursor is *)
(* the buffer b and a position p; a step yields Decoded(p', value) or      *)
(* Panicked (a slice out of range, unwrap, expect, panic!).  get_i32 is    *)
(* get_i32_be on the cursor, get_i64, get_f32, get_f64 and get_uuid are    *)
(* get_bytes of 8, 4, 8 and 16.                                            *)
(***************************************************************************)
\* advance(size), then &self.buffer[start..end]: panics unless the slice lies
\* in the buffer (a negative i32 cast to usize never does)
ZeroCursor_get_bytes(b, p, len) ==
    IF len >= 0 /\ p + len <= Len(b)
    THEN Decoded(p + len, SubSeq(b, p + 1, p + len)) ELSE Panicked
\* UTC.timestamp(..) of get_bytes(12), as decode_timestamp above
ZeroCursor_get_timestamp(b, p) == simple_decode_timestamp(b, p)

\* get_str(size) is str::from_utf8(get_bytes(size)).unwrap()
Decoder_decode_str(b, p) ==
    Then(get_i32_be(b, p),
         LAMBDA len : from_utf8(ZeroCursor_get_bytes(b, len.pos, len.val)))
Decoder_decode_bytes(b, p) ==
    Then(get_i32_be(b, p), LAMBDA len : ZeroCursor_get_bytes(b, len.pos, len.val))
Decoder_decode_key(b, p) ==
    IF p + 1 > Len(b) THEN Panicked
    ELSE CASE b[p + 1] = 0 -> Wrap(Decoder_decode_str(b, p + 1), Key_Str)
           [] b[p + 1] = 1 -> Wrap(get_i32_be(b, p + 1), Key_I32)
           [] OTHER -> Panicked

RECURSIVE Decoder_decode_value(_, _)
\* let count = .., then for _ in 0..count { list.push(decode_value) }
Decoder_decode_list(b, p) ==
    Then(get_i32_be(b, p), LAMBDA count :
      Repeat(rounds(count.val, Len(b) - count.pos, 1), Decoded(count.pos, <<>>), LAMBDA list :
        Then(Decoder_decode_value(b, list.pos), LAMBDA v :
          Decoded(v.pos, Append(list.val, v.val)))))
\* let count = .., then for _ in 0..count { map.insert(key, value) }, the key
\* decoded before the value
Decoder_decode_map(b, p) ==
    Then(get_i32_be(b, p), LAMBDA count :
      Repeat(rounds(count.val, Len(b) - count.pos, 6), Decoded(count.pos, <<>>), LAMBDA map :
        Then(Decoder_decode_key(b, map.pos), LAMBDA k :
          Then(Decoder_decode_value(b, k.pos), LAMBDA v :
            Decoded(v.pos, MapInsert(map.val, k.val, v.val))))))
Decoder_decode_value(b, p) ==
    IF p + 1 > Len(b) THEN Panicked
    ELSE CASE b[p + 1] = 0 -> Decoded(p + 1, Null)
           [] b[p + 1] = 1 -> Wrap(Decoder_decode_str(b, p + 1), String)
           [] b[p + 1] = 2 -> Wrap(get_i32_be(b, p + 1), Int32)
           [] b[p + 1] = 3 -> Wrap(ZeroCursor_get_bytes(b, p + 1, 8), Int64)
           [] b[p + 1] = 4 -> Wrap(ZeroCursor_get_bytes(b, p + 1, 4), Float32)
           [] b[p + 1] = 5 -> Wrap(ZeroCursor_get_bytes(b, p + 1, 8), Float64)
           [] b[p + 1] = 6 ->
                IF p + 2 <= Len(b)
                THEN Decoded(p + 2, Boolean(b[p + 2] # 0)) ELSE Panicked
           [] b[p + 1] = 7 -> Wrap(Decoder_decode_bytes(b, p + 1), Bytes)
           [] b[p + 1] = 8 -> Wrap(Decoder_decode_list(b, p + 1), List)
           [] b[p + 1] = 9 -> Wrap(Decoder_decode_map(b, p + 1), Map)
           [] b[p + 1] = 10 -> Wrap(ZeroCursor_get_bytes(b, p + 1, 16), Uuid)
           [] b[p + 1] = 11 -> Wrap(ZeroCursor_get_timestamp(b, p + 1), Timestamp)
           [] OTHER -> Panicked

\* let _version = cursor.get_i32(), then Flags::from_bits(cursor.get_i32())
\* .expect(..) and the fields: the message and the position the cursor is
\* left at, or Panicked
Decoder_decode_message(b) ==
    Then(get_i32_be(b, 0), LAMBDA version :
      Then(get_i32_be(b, version.pos), LAMBDA flags :
        IF flags.val < 0 \/ flags.val > FlagsAll THEN Panicked
        ELSE
        Field(
         Field(
          Field(
           Field(
            Field(Decoded(flags.pos, message_new),
                  contains(flags.val, HAS_TIMESTAMP), "timestamp",
                  LAMBDA q : Wrap(ZeroCursor_get_timestamp(b, q), LAMBDA x : <<x>>)),
            contains(flags.val, HAS_EXPIRATION), "expiration",
            LAMBDA q : Wrap(ZeroCursor_get_timestamp(b, q), LAMBDA x : <<x>>)),
           contains(flags.val, HAS_CORRELATION_ID), "correlation_id",
           LAMBDA q : Wrap(ZeroCursor_get_bytes(b, q, 16), LAMBDA x : <<x>>)),
          contains(flags.val, HAS_HEADERS), "headers",
          LAMBDA q : Decoder_decode_map(b, q)),
         contains(flags.val, HAS_BODY), "body",
         LAMBDA q : Wrap(Decoder_decode_value(b, q), LAMBDA x : <<x>>))))

(***************************************************************************)
(* The functions of src/src/codec/message_codec.rs applied to the same     *)
(* messages, keys and values.                                              *)
(***************************************************************************)
\* calculate_key_size
CalculateKeySize(key) ==
    /\ ret' = Returned("calculate_key_size", key, SizeCalculator_visit_key(key))
    /\ UNCHANGED <<files, handle, cursors, history, iterator>>
    /\ UNCHANGED <<threads, stops>>

\* calculate_value_size
CalculateValueSize(value) ==
    /\ ret' = Returned("calculate_value_size", value,
                       SizeCalculator_visit_value(value))
    /\ UNCHANGED <<files, handle, cursors, history, iterator>>
    /\ UNCHANGED <<threads, stops>>

\* encode_message: the capacity that calculate_message_size gives and the
\* buffer returned
EncodeMessage(message) ==
    /\ ret' = Returned("encode_message", message,
                       [size |-> SizeCalculator_visit_message(message),
                        buffer |-> Encoder_visit_message(message)])
    /\ UNCHANGED <<files, handle, cursors, history, iterator>>
    /\ UNCHANGED <<threads, stops>>

\* ZeroCursor::new(&bytes), Decoder.decode_message(&cursor) on the bytes that
\* encode_message returned
DecodeMessage ==
    /\ ret.op = "encode_message"
    /\ ret' = Returned("decode_message", ret.val.buffer,
                       Decoder_decode_message(ret.val.buffer))
    /\ UNCHANGED <<files, handle, cursors, history, iterator>>
    /\ UNCHANGED <<threads, stops>>

\* Encoder.visit_timestamp(timestamp, &mut buffer) on an empty buffer
VisitTimestamp(timestamp) ==
    /\ ret' = Returned("visit_timestamp", timestamp,
                       Encoder_visit_timestamp(timestamp))
    /\ UNCHANGED <<files, handle, cursors, history, iterator>>
    /\ UNCHANGED <<threads, stops>>

\* ZeroCursor::new(&bytes).get_timestamp() on the bytes that visit_timestamp
\* wrote
GetTimestamp ==
    /\ ret.op = "visit_timestamp"
    /\ ret' = Returned("get_timestamp", ret.val, ZeroCursor_get_timestamp(ret.val, 0))
    /\ UNCHANGED <<files, handle, cursors, history, iterator>>
    /\ UNCHANGED <<threads, stops>>

\* timestamps on and off a whole second and a whole millisecond
Timestamps ==
    {DateTime(secs, nanos) :
        secs \in {<<0, 0, 0, 0, 0, 0, 0, 0>>, <<0, 0, 0, 0, 0, 0, 0, 42>>,
                  <<255, 255, 255, 255, 255, 255, 255, 255>>},
        nanos \in {0, 1, 1000000, 123000000, 123456789, 999999999}}

\* messages on the wire, from the flags on, that hold a Key tag other than
\* 1 and 2 or a Value tag above 11: in the body, in an item of a List body,
\* in an entry of a Map body and in an entry of the headers
Malformed ==
    LET entries == {<<key_type, 0, 0, 0, 1, 107, 0>> : key_type \in {0, 3}}
                   \cup {<<1, 0, 0, 0, 1, 107, value_type>> :
                            value_type \in {12, 255}}
        values == {<<value_type>> : value_type \in {12, 255}}
                  \cup {<<8, 0, 0, 0, 1, value_type>> : value_type \in {12, 255}}
                  \cup {<<9, 0, 0, 0, 1>> \o entry : entry \in entries}
    IN  {put_i32_be(HAS_BODY) \o value : value \in values}
        \cup {put_i32_be(HAS_HEADERS) \o <<0, 0, 0, 1>> \o entry :
                 entry \in entries}

\* Decoder.decode_message on a cursor over the version word that the decoder
\* reads first and a message of Malformed
DecodeMalformed(buffer) ==
    /\ ret' = Returned("decode_malformed", buffer,
                       Decoder_decode_message(put_i32_be(0) \o buffer))
    /\ UNCHANGED <<files, handle, cursors, history, iterator>>
    /\ UNCHANGED <<threads, stops>>

SpecMessageCodec ==
    Init /\ [][\/ \E key \in {Key_Str(<<107>>), Key_I32(1)} : CalculateKeySize(key)
               \/ \E value \in Values : CalculateValueSize(value)
               \/ \E message \in CodecMessages : EncodeMessage(message)
               \/ DecodeMessage
               \/ \E timestamp \in Timestamps : VisitTimestamp(timestamp)
               \/ GetTimestamp
               \/ \E buffer \in Malformed : DecodeMalformed(buffer)]_vars

(***************************************************************************)
(* Calls on further handles of the directory, one system call at a time.   *)
(* Both files are opened with append(true): every write_all lands at the   *)
(* end the file has at that moment, wherever the handle's cursor is, and   *)
(* the seeks of read are absolute, so a handle's cursors play no part      *)
(* between its calls.  threads[t].last is what the last call on handle t   *)
(* returned; for a write it also records where the call's length prefix    *)
(* landed in the data file and which index entry the call appended.        *)
(***************************************************************************)
\* write, up to dat.seek(SeekFrom::End(0)): message_start is the end of the
\* data file now
WriteSeek(t, message) ==
    /\ threads[t].pc = "idle"
    \* the writes that have started and not yet appended their index entry
    /\ Len(idx) \div 4
       + Cardinality({u \in Threads :
                         threads[u].pc \in {"sought", "header", "contents"}})
       < MaxSize
    /\ threads' = [threads EXCEPT ![t] =
                     [pc |-> "sought", message |-> message,
                      message_start |-> message_start_of(dat)]]
    /\ UNCHANGED <<files, handle, cursors, it, ret, history,
                   yielded, n0, modified, snapshot, stops>>

\* a length prefix written at the position the handle sought, as on files
\* opened without append(true), instead of at the end of the file
WriteHeaderAtCursor(t) ==
    /\ threads[t].pc = "sought"
    /\ LET header == put_u32_le(u32(Len(encode_message(threads[t].message))))
           at == u32_nat(threads[t].message_start)
       IN  dat' = SubSeq(dat, 1, at) \o header \o SubSeq(dat, at + 5, Len(dat))
    /\ threads' = [threads EXCEPT ![t] =
                     [pc |-> "header", message |-> threads[t].message,
                      message_start |-> threads[t].message_start,
                      landed |-> threads[t].message_start]]
    /\ UNCHANGED <<dir, idx, handle, cursors, it, ret, history,
                   yielded, n0, modified, snapshot, stops>>

\* dat.write_all(header)
WriteHeader(t) ==
    /\ threads[t].pc = "sought"
    /\ dat' = dat \o put_u32_le(u32(Len(encode_message(threads[t].message))))
    /\ threads' = [threads EXCEPT ![t] =
                     [pc |-> "header", message |-> threads[t].message,
                      message_start |-> threads[t].message_start,
                      landed |-> u32(Len(dat))]]
    /\ UNCHANGED <<dir, idx, handle, cursors, it, ret, history,
                   yielded, n0, modified, snapshot, stops>>

\* dat.write_all(contents)
WriteContents(t) ==
    /\ threads[t].pc = "header"
    /\ dat' = dat \o encode_message(threads[t].message)
    /\ threads' = [threads EXCEPT ![t].pc = "contents"]
    /\ UNCHANGED <<dir, idx, handle, cursors, it, ret, history,
                   yielded, n0, modified, snapshot, stops>>

\* idx.seek(SeekFrom::End(0)), idx.write_all(message_start); write returns
WriteIndex(t) ==
    /\ threads[t].pc = "contents"
    /\ idx' = idx \o put_u32_le(threads[t].message_start)
    /\ threads' = [threads EXCEPT ![t] =
                     Idle(Returned("write", threads[t].message,
                                   [entry |-> Len(idx) \div 4,
                                    message_start |-> threads[t].message_start,
                                    landed |-> threads[t].landed]))]
    /\ UNCHANGED <<dir, dat, handle, cursors, it, ret, history,
                   yielded, n0, modified, snapshot, stops>>

\* truncate, up to idx.set_len(0)
TruncateIndex(t) ==
    /\ threads[t].pc = "idle"
    /\ idx' = <<>>
    /\ threads' = [threads EXCEPT ![t] = [pc |-> "truncating"]]
    /\ UNCHANGED <<dir, dat, handle, cursors, it, ret, history,
                   yielded, n0, modified, snapshot, stops>>

\* dat.set_len(0); truncate returns
TruncateData(t) ==
    /\ threads[t].pc = "truncating"
    /\ dat' = <<>>
    /\ threads' = [threads EXCEPT ![t] = Idle(Returned("truncate", <<>>, None))]
    /\ UNCHANGED <<dir, idx, handle, cursors, it, ret, history,
                   yielded, n0, modified, snapshot, stops>>

\* read(offset), up to the first size() of its range check
ReadSize(t, offset) ==
    /\ threads[t].pc = "idle"
    /\ threads' = [threads EXCEPT ![t] =
                     IF size_of(idx) = u32(0)
                     THEN Idle(Returned("read", offset, None))
                     ELSE [pc |-> "sized", offset |-> offset]]
    /\ UNCHANGED <<files, handle, cursors, it, ret, history,
                   yielded, n0, modified, snapshot, stops>>

\* offset > self.size() - 1 with the second size(): when the index was
\* emptied since the first, size() - 1 overflows: a panic in a build with
\* overflow checks, u32::MAX in one without
ReadRange(t) ==
    /\ threads[t].pc = "sized"
    /\ \E checked \in BOOLEAN :
         threads' = [threads EXCEPT ![t] =
                       IF size_of(idx) = u32(0) /\ checked
                       THEN Idle(Returned("read", threads[t].offset, Panic))
                       ELSE IF u32_gt(threads[t].offset, u32_dec(size_of(idx)))
                       THEN Idle(Returned("read", threads[t].offset, None))
                       ELSE [pc |-> "ranged", offset |-> threads[t].offset]]
    /\ UNCHANGED <<files, handle, cursors, it, ret, history,
                   yielded, n0, modified, snapshot, stops>>

\* idx.seek(SeekFrom::Start(offset * 4)), idx.read_exact(header).unwrap()
ReadEntry(t) ==
    /\ threads[t].pc = "ranged"
    /\ LET entry == u32_mul4(threads[t].offset)
       IN  threads' = [threads EXCEPT ![t] =
                         IF ~Within(entry, 4, idx)
                         THEN Idle(Returned("read", threads[t].offset, Panic))
                         ELSE [pc |-> "entry", offset |-> threads[t].offset,
                               message_start |->
                                   get_u32_le(read_exact(entry, 4, idx), 0).val]]
    /\ UNCHANGED <<files, handle, cursors, it, ret, history,
                   yielded, n0, modified, snapshot, stops>>

\* dat.seek(SeekFrom::Start(message_start)), dat.read_exact(header).unwrap()
ReadHeader(t) ==
    /\ threads[t].pc = "entry"
    /\ LET record == seek_record(u32(0), threads[t].message_start)
       IN  threads' = [threads EXCEPT ![t] =
                         IF ~Within(record, 4, dat)
                         THEN Idle(Returned("read", threads[t].offset, Panic))
                         ELSE [pc |-> "record", offset |-> threads[t].offset,
                               contents |-> read_exact_pos(record, 4, dat),
                               message_size |->
                                   get_u32_le(read_exact(record, 4, dat), 0).val]]
    /\ UNCHANGED <<files, handle, cursors, it, ret, history,
                   yielded, n0, modified, snapshot, stops>>

\* dat.read_exact(message_buffer).unwrap(), Some(decode_message(..)); read
\* returns
ReadContents(t) ==
    /\ threads[t].pc = "record"
    /\ LET message_size == threads[t].message_size
           contents == threads[t].contents
       IN  threads' = [threads EXCEPT ![t] =
               Idle(Returned("read", threads[t].offset,
                    IF message_size[1] = 0 /\ Within(contents, message_size[2], dat)
                    THEN decoded(decode_message(
                             read_exact(contents, message_size[2], dat)))
                    ELSE Panic))]
    /\ UNCHANGED <<files, handle, cursors, it, ret, history,
                   yielded, n0, modified, snapshot, stops>>

(***************************************************************************)
(* SpecReaders: handle 1 writes and truncates, handle 2 reads.             *)
(***************************************************************************)
SpecReaders ==
    Init /\ [][\/ \E message \in Messages : WriteSeek(1, message)
               \/ WriteHeader(1)
               \/ WriteContents(1)
               \/ WriteIndex(1)
               \/ TruncateIndex(1)
               \/ TruncateData(1)
               \/ \E offset \in Offsets : ReadSize(2, offset)
               \/ ReadRange(2)
               \/ ReadEntry(2)
               \/ ReadHeader(2)
               \/ ReadContents(2)]_vars

(***************************************************************************)
(* SpecWriters: handles 1 and 2 both write.                                *)
(***************************************************************************)
SpecWriters ==
    Init /\ [][\/ \E t \in Threads, message \in Messages : WriteSeek(t, message)
               \/ \E t \in Threads : WriteHeader(t)
               \/ \E t \in Threads : WriteContents(t)
               \/ \E t \in Threads : WriteIndex(t)]_vars

(***************************************************************************)
(* A process that stops during write.  write puts out, in this order, the  *)
(* 4 bytes of the length prefix and the contents (to the data file) and    *)
(* the 4 bytes of the index entry (to the index file), with no flush or    *)
(* sync between them; stopped after k of these bytes, the files hold the   *)
(* first k and the handle is gone.                                         *)
(***************************************************************************)
\* the bytes write(message) appends to the data file
record_of(message) ==
    put_u32_le(u32(Len(encode_message(message)))) \o encode_message(message)

WriteStopped(message, k) ==
    /\ handle = "open" /\ it = <<>>
    /\ stops < MaxStops
    /\ Len(idx) \div 4 < MaxSize
    /\ k < Len(record_of(message)) + 4
    /\ IF k <= Len(record_of(message))
       THEN /\ dat' = dat \o SubSeq(record_of(message), 1, k)
            /\ idx' = idx
       ELSE /\ dat' = write_dat(message)
            /\ idx' = idx \o SubSeq(put_u32_le(message_start_of(dat)), 1,
                                    k - Len(record_of(message)))
    /\ handle' = "stopped"
    /\ datPos' = u32(0) /\ idxPos' = u32(0)
    /\ ret' = Returned("stopped", message, k)
    /\ stops' = stops + 1
    /\ UNCHANGED <<dir, history, iterator, threads>>

(***************************************************************************)
(* SpecCrash: a segment that is written and read, whose process may stop   *)
(* during a write, and whose directory is then reopened.                   *)
(***************************************************************************)
SpecCrash ==
    Init /\ [][\/ WithDirectory
               \/ \E message \in Messages : Write(message)
               \/ \E message \in Messages,
                     k \in 0..(Len(record_of(MsgProp)) + 3) :
                        WriteStopped(message, k)
               \/ \E offset \in Offsets : Read(offset)]_vars

(***************************************************************************)
(* The on-disk format, as the claims speak of it.                          *)
(***************************************************************************)
\* the value of entry i of an index file (4 bytes, little-endian) as a
\* natural; -1 when the file has no such entry
index_entry_in(index, i) ==
    LET e == get_u32_le(index, 4 * i)
    IN  IF e.ok /\ e.val[1] < Half \div 2 THEN u32_nat(e.val) ELSE -1
\* the length prefix of the record that starts at byte position start
record_length_in(data, start) ==
    LET l == IF start >= 0 THEN get_u32_le(data, start) ELSE Panicked
    IN  IF l.ok /\ l.val[1] < Half \div 2 THEN u32_nat(l.val) ELSE -1
\* the contents of the record that index entry i designates; <<-1>> when
\* the files do not hold it
record_in(index, data, i) ==
    LET start == index_entry_in(index, i)
        length == record_length_in(data, start)
    IN  IF length >= 0 /\ start + 4 + length <= Len(data)
        THEN SubSeq(data, start + 5, start + 4 + length)
        ELSE <<-1>>

RECURSIVE RecordStart(_, _)
\* 4 + L_0 + ... + 4 + L_(i-1) for the encodings of the messages of log
RecordStart(log, i) ==
    IF i = 0 THEN 0
    ELSE RecordStart(log, i - 1) + 4 + Len(encode_message(log[i]))

\* the offsets below MaxSize, as naturals
Slots == 0..(MaxSize - 1)

(***************************************************************************)
(* C1. After n writes to a freshly created segment (never truncated),      *)
(* size() = n, read(i) is Some for every i < n and None for every i >= n.  *)
(***************************************************************************)
C1_OffsetDensity ==
    (handle = "open" /\ ~truncated) =>
        /\ size = u32(Len(written))
        /\ \A i \in 0..MaxSize :
              IF i < Len(written) THEN read(u32(i)).k = "Some"
              ELSE read(u32(i)) = None
        /\ read(U32_MAX) = None

(***************************************************************************)
(* C2. On a segment that received the writes m_0 .. m_(n-1) since it was   *)
(* created, without truncate, read(i) returns Some(m_i) for every i < n,   *)
(* in every later state.                                                   *)
(***************************************************************************)
C2_ReadReturnsWritten ==
    (handle = "open" /\ ~truncated) =>
        \A i \in Slots : i < Len(written) => read(u32(i)) = Some(written[i + 1])

(***************************************************************************)
(* C3. Dropping the handle and reopening the directory keeps size() and    *)
(* the outcome of every read(i); the first write after the reopen gets     *)
(* offset n = size(): it adds one index entry, and entry n designates the  *)
(* record of the written message, placed at the former end of the data.    *)
(***************************************************************************)
C3_PersistenceAcrossReopen ==
    [][/\ ((handle = "open" /\ handle' = "dropped")
            \/ (handle = "dropped" /\ handle' = "open"))
          => /\ size_of(idx') = size
             /\ \A o \in Offsets : read_after(o) = read(o)
       /\ (ret.op = "with_directory" /\ ret'.op = "write")
          => /\ size_of(idx') = u32(u32_nat(size) + 1)
             /\ index_entry_in(idx', u32_nat(size)) = Len(dat)
             /\ record_in(idx', dat', u32_nat(size)) = encode_message(ret'.arg)
             /\ \A o \in Offsets : u32_gt(size, o) => read_after(o) = read(o)
      ]_vars

\* the directory was reopened after two writes, the first of a message
\* that read returns
C3_Witness ==
    /\ ret.op = "with_directory" /\ ~truncated
    /\ Len(written) = 2
    /\ read(u32(0)) = Some(written[1])

(***************************************************************************)
(* C4. After truncate(), size() = 0, every read is None, the directory     *)
(* and the files exist and the handle is usable; the k writes that follow  *)
(* give size() = k and read(i) = Some(the i-th of them).                   *)
(***************************************************************************)
C4_TruncateResets ==
    /\ ret.op = "truncate"
       => /\ size = u32(0) /\ dir /\ handle = "open"
          /\ \A o \in Offsets : read(o) = None
    /\ (truncated /\ handle = "open")
       => /\ size = u32(Len(written))
          /\ \A i \in Slots :
                i < Len(written) => read(u32(i)) = Some(written[i + 1])

C6_OutOfRangeIsNone ==
    /\ \A o \in Offsets : ~u32_gt(size, o) => read(o) = None
    /\ (ret.op = "read" /\ ~u32_gt(size, ret.arg)) => ret.val = None

\* read(2^32 - 1) has returned None on an empty segment
C6_Witness ==
    /\ ret.op = "read" /\ ret.arg = U32_MAX /\ ret.val = None
    /\ size = u32(0) /\ handle = "open"

(***************************************************************************)
(* C7 as stated. For the whole life of a segment no offset is ever         *)
(* assigned to a second, different message.                                *)
(***************************************************************************)
C7_OffsetsNeverReused == ~reused

(***************************************************************************)
(* C7 as amended. Until the next truncate() or delete(), an offset that    *)
(* write has assigned stays assigned to the same message, the record it    *)
(* designates stays the same bytes and read(i) keeps its outcome.          *)
(***************************************************************************)
C7_StableUntilTruncate ==
    [][ret'.op \notin {"truncate", "delete"}
       => \A i \in Slots :
             i < Len(written)
             => /\ i < Len(written') /\ written'[i + 1] = written[i + 1]
                /\ record_in(idx', dat', i) = record_in(idx, dat, i)
                /\ read_after(u32(i)) = read(u32(i))
      ]_vars

\* after a truncate, a second write has followed the one that was given
\* offset 0, whose message read(0) returns
C7_Witness ==
    /\ truncated /\ ret.op = "write"
    /\ Len(written) = 2
    /\ read(u32(0)) = Some(written[1])

(***************************************************************************)
(* C8. With n messages written, the index holds n little-endian entries,   *)
(* entry i is the byte position where record i begins, record i is the     *)
(* little-endian length L_i and then the L_i bytes of the encoding of      *)
(* message i, entry 0 is 0, entry i+1 = entry i + 4 + L_i and the data     *)
(* file is as long as the sum of the 4 + L_i.                              *)
(***************************************************************************)
C8_FileLayout ==
    /\ Len(idx) = 4 * Len(written)
    /\ Len(dat) = RecordStart(written, Len(written))
    /\ \A i \in Slots :
          i < Len(written)
          => LET start == RecordStart(written, i)
                 contents == encode_message(written[i + 1])
             IN  /\ SubSeq(idx, 4 * i + 1, 4 * i + 4) = put_u32_le(u32(start))
                 /\ index_entry_in(idx, i) = start
                 /\ SubSeq(dat, start + 1, start + 4)
                      = put_u32_le(u32(Len(contents)))
                 /\ record_length_in(dat, start) = Len(contents)
                 /\ record_in(idx, dat, i) = contents

\* two records of different lengths are stored
C8_Witness ==
    /\ Len(written) = 2
    /\ written[1] = MsgProp /\ written[2] = MsgBody
    /\ index_entry_in(idx, 1) = 4 + Len(encode_message(MsgProp))

(***************************************************************************)
(* C9. On a segment of size n that is not modified meanwhile, the calls    *)
(* of next on a new iterator return (0, read(0)), .., (n-1, read(n-1)) and *)
(* then None, whatever was done with earlier iterators.                    *)
(***************************************************************************)
C9_ForwardIteration ==
    (it # <<>> /\ ~modified
     /\ \A k \in 1..Len(yielded) : yielded[k].op = "next")
    => \A k \in 1..Len(yielded) :
          IF k <= n0
          THEN /\ yielded[k].val.k = "Some"
               /\ yielded[k].val.v[1] = k - 1
               /\ read(u32(k - 1)) = Some(yielded[k].val.v[2])
          ELSE yielded[k].val = None

(***************************************************************************)
(* C10. On a segment of size n that is not modified meanwhile, the calls   *)
(* of next_back on a new iterator return (n-1, read(n-1)), .., (0,         *)
(* read(0)) and then None.                                                 *)
(***************************************************************************)
C10_ReverseIteration ==
    (it # <<>> /\ ~modified
     /\ \A k \in 1..Len(yielded) : yielded[k].op = "next_back")
    => \A k \in 1..Len(yielded) :
          IF k <= n0
          THEN /\ yielded[k].val.k = "Some"
               /\ yielded[k].val.v[1] = n0 - k
               /\ read(u32(n0 - k)) = Some(yielded[k].val.v[2])
          ELSE yielded[k].val = None

(***************************************************************************)
(* C11. On an unmodified segment of size n, nth(k) on a forward iterator   *)
(* whose next unread offset is s returns (s + k, m_(s+k)) and leaves the   *)
(* iterator at s + k + 1 when s + k < n, and returns None and leaves the   *)
(* iterator exhausted otherwise; hence nth(k) followed by next calls, as   *)
(* skip(k) makes them, yields the offsets k, k + 1, .., n - 1 with their   *)
(* messages and then None.                                                 *)
(***************************************************************************)
C11_NthSkip ==
    [][/\ (it # <<>> /\ ~modified /\ ret'.op = "nth"
           /\ \A j \in 1..Len(yielded) : yielded[j].op \in {"next", "nth"})
          => LET o == it[1].start + ret'.arg
             IN  IF o < n0
                 THEN /\ ret'.val = Some(<<o, snapshot[o + 1]>>)
                      /\ it'[1].start = o + 1
                 ELSE /\ ret'.val = None
                      /\ it'[1].start >= it'[1].end
       /\ (it' # <<>> /\ ~modified' /\ Len(yielded') >= 1
           /\ yielded'[1].op = "nth"
           /\ \A j \in 2..Len(yielded') : yielded'[j].op = "next")
          => \A j \in 1..Len(yielded') :
                LET o == yielded'[1].arg + j - 1
                IN  yielded'[j].val = IF o < n0' THEN Some(<<o, snapshot'[o + 1]>>)
                                      ELSE None
      ]_vars

\* the items (offset, message) among the results of the calls made on the
\* live iterator
Items == {yielded[j].val.v : j \in {i \in 1..Len(yielded) : yielded[i].val.k = "Some"}}

(***************************************************************************)
(* C12. Whatever is done to the segment while an iterator constructed at   *)
(* size() = n is consumed, the iterator yields at most n items, only       *)
(* offsets below n, and only messages the segment held when the iterator   *)
(* was constructed.                                                        *)
(***************************************************************************)
C12_BoundedBySizeAtConstruction ==
    it # <<>> =>
        /\ Cardinality({j \in 1..Len(yielded) : yielded[j].val.k = "Some"}) <= n0
        /\ \A i \in Items :
              /\ i[1] < n0
              /\ \E k \in 1..Len(snapshot) : snapshot[k] = i[2]

C14_RoundTrip ==
    [][ret.op = "simple::encode_message" /\ ret'.op = "simple::decode_message"
       => ret'.val.ok /\ ret'.val.val = ret.arg]_vars


\* C15: calculate_message_size(m) is the number of bytes the encoder writes
\* for m, so the buffer presized by encode_message is filled exactly, and
\* calculate_value_size / calculate_key_size are the number of bytes the
\* encoder writes for the value / the key
\* (src/src/codec/message_codec.rs, SizeCalculator and Encoder).
C15_SizeIsEncodedLength ==
    /\ ret.op = "encode_message" => ret.val.size = Len(ret.val.buffer)
    /\ ret.op = "calculate_value_size"
       => ret.val = Len(Encoder_visit_value(ret.arg))
    /\ ret.op = "calculate_key_size"
       => ret.val = Len(Encoder_visit_key(ret.arg))

\* C20: decoding the buffer that encoding a message produced consumes exactly
\* the bytes of the buffer: the decoder returns and leaves the cursor at the
\* end of the buffer (src/src/codec/message_codec.rs, Encoder::visit_message
\* then Decoder::decode_message).
C20_DecoderConsumesAll ==
    ret.op = "decode_message"
    => ret.val.ok /\ ret.val.pos = Len(ret.arg)

\* C16: with one writer and concurrent readers, at every intermediate step of
\* write and of truncate every index entry counted by size() designates a
\* record whose length prefix and contents are completely in the data file,
\* and a read running concurrently with the writer returns None or a complete
\* message that was written, never fails on a partial entry or record
\* (src/src/topic/mod.rs, write, truncate and read on separate handles).
C16_ReadersSeeCompleteRecords ==
    /\ \A i \in 0..(u32_nat(size) - 1) :
          \E m \in Messages : record_in(idx, dat, i) = encode_message(m)
    /\ \A t \in Threads :
          threads[t].pc = "idle" /\ threads[t].last.op = "read"
          => \/ threads[t].last.val = None
             \/ \E m \in Messages : threads[t].last.val = Some(m)

\* C17: write is not atomic across writers: when two writers have both sought
\* the end of the data file before either appended (their writes recorded
\* the same message_start), then after both writes some index entry does not
\* hold the position at which the write that appended the entry put its
\* record (src/src/topic/mod.rs, write on two handles).
C17_WritersRace ==
    \A t1 \in Threads, t2 \in Threads :
        (/\ t1 # t2
         /\ threads[t1].pc = "idle" /\ threads[t1].last.op = "write"
         /\ threads[t2].pc = "idle" /\ threads[t2].last.op = "write"
         /\ threads[t1].last.val.message_start = threads[t2].last.val.message_start)
        => \E t \in {t1, t2} :
              index_entry_in(idx, threads[t].last.val.entry)
                  # u32_nat(threads[t].last.val.landed)

\* the race has happened: the write of MsgBody appended index entry 1, which
\* designates the record of the other write, so read(1) returns EmptyMessage
C17_Witness ==
    \E t \in Threads :
        /\ \A u \in Threads : threads[u].pc = "idle" /\ threads[u].last.op = "write"
        /\ threads[t].last.arg = MsgBody
        /\ threads[t].last.val.entry = 1
        /\ index_entry_in(idx, 1) = 0 /\ threads[t].last.val.landed = u32(8)
        /\ read(u32(1)) = Some(EmptyMessage)

\* C18: when the process stops at any point during a write and the directory
\* is reopened, size() counts at most the one record that was in progress,
\* every read of an offset that was readable before the stop has the same
\* outcome, and a write after the reopen gets offset size(): it adds one
\* index entry, which designates the record of the written message, and
\* keeps the outcome of the reads below it
\* (src/src/topic/mod.rs, write stopped part-way, with_directory, write).
C18_StopDuringWrite ==
    [][/\ (ret'.op = "stopped" \/ (ret.op = "stopped" /\ ret'.op = "with_directory"))
          => /\ ~u32_gt(size_of(idx'), u32(u32_nat(size) + 1))
             /\ \A o \in Offsets : u32_gt(size, o) => read_after(o) = read(o)
       /\ (ret.op = "with_directory" /\ ret'.op = "write")
          => /\ size_of(idx') = u32(u32_nat(size) + 1)
             /\ record_in(idx', dat', u32_nat(size)) = encode_message(ret'.arg)
             /\ \A o \in Offsets : u32_gt(size, o) => read_after(o) = read(o)
      ]_vars

\* C19: after delete() has returned, the segment directory and both of its
\* files no longer exist and the segment value is consumed: no write, read,
\* size, truncate or iter follows on it, the only step left is with_directory
\* making a new segment (src/src/topic/mod.rs, delete).
C19_DeleteIsTerminal ==
    [][/\ ret'.op = "delete"
          => ~dir' /\ dat' = <<>> /\ idx' = <<>> /\ handle' = "deleted"
       /\ handle = "deleted"
          => ret'.op = "with_directory" /\ handle' = "open"
      ]_vars

\* a segment has been deleted
C19_Witness ==
    ret.op = "delete" /\ handle = "deleted" /\ ~dir /\ dat = <<>> /\ idx = <<>>

\* read(offset) up to idx.seek(SeekFrom::Start((offset * 4) as u64)), on an
\* index file given by its length as size() sees it (end, the u64 length
\* cast to u32): None when the range check fails, else the seek position.
\* offset * 4 is a u32 product: where it exceeds u32::MAX a build with
\* overflow checks panics and one without them wraps.
ReadIndexSeek(end, offset) ==
    /\ \E position \in
           IF u32_div4(end) = u32(0) \/ u32_gt(offset, u32_dec(u32_div4(end)))
           THEN {None}
           ELSE IF offset[1] >= Half \div 4
           THEN {Panic, Some(u32_mul4(offset))}
           ELSE {Some(u32_mul4(offset))} :
           ret' = Returned("read_index_seek", <<end, offset>>, position)
    /\ UNCHANGED <<files, handle, cursors, history, iterator>>
    /\ UNCHANGED <<threads, stops>>

SpecReadIndexSeek ==
    Init /\ [][\E end \in {u32(0), u32(3), u32(4), u32(8), u32(12), <<0, 65535>>,
                            <<1, 0>>, <<16384, 0>>, <<32768, 0>>,
                            <<65535, 65532>>, U32_MAX},
                 offset \in {u32(0), u32(1), u32(2), <<0, 16383>>, <<0, 65535>>,
                             <<16383, 65534>>, <<16383, 65535>>, <<16384, 0>>,
                             <<32767, 65535>>, <<32768, 0>>, <<49152, 0>>,
                             U32_MAX} :
                 ReadIndexSeek(end, offset)]_vars

(***************************************************************************)
(* Pipeline (src/src/pipeline/mod.rs).  The handlers are the entries       *)
(* (name, handler) of a LinkedHashMap in insertion order; a handler is     *)
(* what its two methods pass to context.set_flow: <<>> when the method     *)
(* leaves the flow alone, <<flow>> otherwise.  The context carries, next   *)
(* to its fields, the list of the handler calls made with it.              *)
(***************************************************************************)
\* variants of the two checks: one that only Break fails, one that only
\* Upstream passes
continue_unless_break(flow) == flow # "Break"
continue_upstream_only(flow) == flow = "Upstream"
continue_downstream(flow) == flow \in {"Downstream", "DownstreamAndUpstream"}
continue_upstream(flow) == flow \in {"Upstream", "DownstreamAndUpstream"}

\* the context at the end of Pipeline::process.  Each loop is entered on the
\* condition that it re-checks after every handler, and no handler runs once
\* it fails, so the pass over the handlers that follow leaves the context as
\* it is.
process(handlers) ==
    LET n == Len(handlers)
        call(context, i, method) ==
            LET keyed == [context EXCEPT !.current_handler = <<handlers[i][1]>>]
                flow == IF method = "handle_downstream" THEN handlers[i][2].down
                        ELSE handlers[i][2].up
            IN  [keyed EXCEPT
                   !.flow = IF flow = <<>> THEN @ ELSE flow[1],
                   !.calls = Append(@, [method |-> method, handler |-> i,
                                        key |-> keyed.current_handler,
                                        direction |-> keyed.direction])]
        down[i \in 0..n] ==
            IF i = 0
            THEN [current_handler |-> <<>>, flow |-> "DownstreamAndUpstream",
                  direction |-> "Downstream", calls |-> <<>>]
            ELSE IF continue_downstream(down[i - 1].flow)
            THEN call(down[i - 1], i, "handle_downstream")
            ELSE down[i - 1]
        up[j \in 0..n] ==
            IF j = 0 THEN [down[n] EXCEPT !.direction = "Upstream"]
            ELSE IF continue_upstream(up[j - 1].flow)
            THEN call(up[j - 1], n + 1 - j, "handle_upstream")
            ELSE up[j - 1]
    IN  up[n]

\* builder.append_handler(name, handler); ret.arg is the builder's handlers
AppendHandler(name, handler) ==
    /\ ret.op \in {"with_directory", "append_handler"}
    /\ Len(ret.arg) < MaxHandlers
    /\ ret' = Returned("append_handler", MapInsert(ret.arg, name, handler), None)
    /\ UNCHANGED <<files, handle, cursors, history, iterator>>
    /\ UNCHANGED <<threads, stops>>

\* builder.build().process(message)
Process ==
    /\ ret.op \in {"with_directory", "append_handler"}
    /\ ret' = Returned("process", ret.arg, process(ret.arg))
    /\ UNCHANGED <<files, handle, cursors, history, iterator>>
    /\ UNCHANGED <<threads, stops>>

SpecPipeline ==
    Init /\ [][\/ \E name \in {"Heartbeat", "Debug", "Audit"},
                     down \in {<<>>, <<"Downstream">>, <<"Upstream">>,
                               <<"DownstreamAndUpstream">>, <<"Break">>},
                     up \in {<<>>, <<"Downstream">>, <<"Break">>} :
                     AppendHandler(name, [down |-> down, up |-> up])
               \/ Process]_vars

\* C21: the encoder and the decoder use the same tag for containers: a Map
\* value that encode_value wrote is decoded as a Map, a List value as a List
\* (src/src/codec/simple.rs, encode_value and decode_value, on the body of a
\* message).
C21_ContainerTagsAgree ==
    [][(/\ ret.op = "simple::encode_message"
        /\ ret'.op = "simple::decode_message"
        /\ ret.arg.body # <<>>
        /\ ret.arg.body[1].t \in {"Map", "List"})
       => /\ ret'.val.ok
          /\ ret'.val.val.body # <<>>
          /\ ret'.val.val.body[1].t = ret.arg.body[1].t]_vars

\* C22: the sub-second part of a timestamp has the same unit on encode and on
\* decode: for every Timestamp t, decoding the 12 bytes that the timestamp
\* encoder wrote for t yields t (src/src/codec/message_codec.rs,
\* Encoder::visit_timestamp then ZeroCursor::get_timestamp).
C22_TimestampRoundTrip ==
    [][ret.op = "visit_timestamp" /\ ret'.op = "get_timestamp"
       => ret'.val.ok /\ ret'.val.val = ret.arg]_vars

\* C23: decoding a Key whose tag byte is not 1 or 2, or a Value whose tag byte
\* is not in 0..11, at any nesting depth, aborts the whole decode: no Message
\* is returned (src/src/codec/message_codec.rs, Decoder::decode_message over
\* decode_key and decode_value).
C23_UnsupportedTagAborts ==
    ret.op = "decode_malformed" => ~ret.val.ok

\* C24: decoding a message whose flags field has a bit set outside bits 0 to
\* 4 panics, and every value in 0..31 is accepted by Flags::from_bits as the
\* flags with those bits, each bit standing for its field: a decode that
\* returns has the timestamp exactly when bit 0 is set, the body exactly when
\* bit 2 is set, the expiration exactly when bit 3 is set, the correlation id
\* exactly when bit 4 is set, and headers only when bit 1 is set.
C24_FlagsField ==
    ret.op = "simple::decode_flags"
    => LET bits == get_i32_be(ret.arg, 0).val
           raw == <<ret.arg[1] * 256 + ret.arg[2], ret.arg[3] * 256 + ret.arg[4]>>
       IN  /\ bits \notin 0..FlagsAll => ~ret.val.ok
           /\ bits \in 0..FlagsAll =>
                 /\ from_bits(raw) = <<bits>>
                 /\ ret.val.ok =>
                       /\ ret.val.val.timestamp # <<>> <=> (bits \div 1) % 2 = 1
                       /\ ret.val.val.headers # <<>> => (bits \div 2) % 2 = 1
                       /\ ret.val.val.body # <<>> <=> (bits \div 4) % 2 = 1
                       /\ ret.val.val.expiration # <<>> <=> (bits \div 8) % 2 = 1
                       /\ ret.val.val.correlation_id # <<>> <=> (bits \div 16) % 2 = 1
\* a message with all five fields whose flags field reads 95 (bit 6 set
\* besides the five) has been given to decode_message
C24_Witness ==
    /\ ret.op = "simple::decode_flags"
    /\ get_i32_be(ret.arg, 0).val = 95
    /\ Len(ret.arg) > 4 + 12 + 12 + 16 + 4
    /\ ~ret.val.ok

\* C25: after any sequence of header insertions on a message every key
\* inserted occurs exactly once in the headers, with the value of its last
\* insertion, and headers().len() is the number of distinct keys inserted.
C25_HeaderKeysUnique ==
    ret.op = "headers_mut().insert"
    => LET headers == ret.val.headers
           inserted == ret.arg
       IN  /\ \A i, j \in 1..Len(headers) : headers[i][1] = headers[j][1] => i = j
           /\ \A i \in 1..Len(inserted) :
                 (\A j \in (i + 1)..Len(inserted) : inserted[j][1] # inserted[i][1])
                 => \E h \in 1..Len(headers) : headers[h] = inserted[i]
           /\ Len(headers) = Cardinality({inserted[i][1] : i \in 1..Len(inserted)})
\* a key has been inserted, another one after it, and the first one again
\* with a different value
C25_Witness ==
    /\ ret.op = "headers_mut().insert"
    /\ Len(ret.arg) = 3
    /\ ret.arg[1][1] = ret.arg[3][1] /\ ret.arg[1][2] # ret.arg[3][2]
    /\ ret.arg[2][1] # ret.arg[1][1]
    /\ Len(ret.val.headers) = 2

\* C26: in FileSegment::write the size that the size calculator computes for
\* the message equals the number of bytes the encoder produces for it, the
\* bytes the write appends to the data file after the 4-byte header.
C26_SizeIsExact ==
    [][Len(written') = Len(written) + 1
       => visit_message(written'[Len(written')]) = Len(dat') - Len(dat) - 4]_vars

\* C27: on a segment of size n that is not modified meanwhile, the calls of
\* next and next_back on one iterator, in any interleaving, yield the
\* offsets from the front in increasing order and from the back in
\* decreasing order, each with its message: the k-th call, k <= n, yields an
\* offset no earlier call yielded, so that n calls yield every offset in
\* 0..n-1 exactly once, and every call after them returns None.
C27_DoubleEnded ==
    (it # <<>> /\ ~modified
     /\ \A k \in 1..Len(yielded) : yielded[k].op \in {"next", "next_back"})
    => \A k \in 1..Len(yielded) :
          LET same == Cardinality({j \in 1..k : yielded[j].op = yielded[k].op})
              offset == IF yielded[k].op = "next" THEN same - 1 ELSE n0 - same
          IN  IF k <= n0
              THEN yielded[k].val = Some(<<offset, snapshot[offset + 1]>>)
              ELSE yielded[k].val = None

\* C29: with the default flow and handlers that do not change it, process
\* calls handle_downstream on every handler once, in insertion order and
\* with direction Downstream, and after the last of these calls
\* handle_upstream on every handler once, in reverse insertion order and
\* with direction Upstream; the current handler key that each call sees is
\* the key of the handler called.
C29_DownThenUp ==
    (ret.op = "process"
     /\ \A i \in 1..Len(ret.arg) : ret.arg[i][2] = [down |-> <<>>, up |-> <<>>])
    => LET n == Len(ret.arg)
           calls == ret.val.calls
       IN  /\ Len(calls) = 2 * n
           /\ \A i \in 1..n :
                 /\ calls[i] = [method |-> "handle_downstream", handler |-> i,
                                key |-> <<ret.arg[i][1]>>,
                                direction |-> "Downstream"]
                 /\ calls[n + i] = [method |-> "handle_upstream",
                                    handler |-> n + 1 - i,
                                    key |-> <<ret.arg[n + 1 - i][1]>>,
                                    direction |-> "Upstream"]
\* a pipeline of three handlers that leave the flow alone has processed a
\* message
C29_Witness ==
    /\ ret.op = "process" /\ Len(ret.arg) = 3
    /\ \A i \in 1..3 : ret.arg[i][2] = [down |-> <<>>, up |-> <<>>]
    /\ Len(ret.val.calls) = 6

\* C30: process re-checks the flow after every handler call.  The downstream
\* calls go to the handlers in insertion order and end with the first
\* handler after which the flow is Upstream or Break; the upstream calls are
\* made only if the flow then is Upstream or DownstreamAndUpstream, go to
\* the handlers from the last to the first, whether or not they had a
\* downstream call, and end with the first handler after which the flow is
\* Downstream or Break; no handler is called once the flow is Break.
C30_FlowRechecked ==
    ret.op = "process"
    => LET n == Len(ret.arg)
           calls == ret.val.calls
           set(k) == IF calls[k].method = "handle_downstream"
                     THEN ret.arg[calls[k].handler][2].down
                     ELSE ret.arg[calls[k].handler][2].up
           \* the flow after the first k calls
           flow[k \in 0..Len(calls)] ==
               IF k = 0 THEN "DownstreamAndUpstream"
               ELSE IF set(k) = <<>> THEN flow[k - 1] ELSE set(k)[1]
           d == Cardinality({k \in 1..Len(calls) :
                                calls[k].method = "handle_downstream"})
           u == Len(calls) - d
       IN  /\ d <= n /\ u <= n
           /\ \A k \in 1..d : /\ calls[k].method = "handle_downstream"
                               /\ calls[k].handler = k
                               /\ flow[k - 1] \in {"Downstream", "DownstreamAndUpstream"}
           /\ d < n => flow[d] \in {"Upstream", "Break"}
           /\ \A j \in 1..u : /\ calls[d + j].method = "handle_upstream"
                               /\ calls[d + j].handler = n + 1 - j
                               /\ flow[d + j - 1] \in {"Upstream", "DownstreamAndUpstream"}
           /\ u < n => flow[d + u] \in {"Downstream", "Break"}
           /\ \A k \in 0..(Len(calls) - 1) : flow[k] # "Break"
\* of three handlers the first sets the flow to Upstream in its downstream
\* call and the second sets it to Break in its upstream call: the calls are
\* the downstream call of the first and the upstream calls of the third and
\* the second
C30_Witness ==
    /\ ret.op = "process" /\ Len(ret.arg) = 3
    /\ ret.arg[1][2].down = <<"Upstream">>
    /\ ret.arg[3][2].up = <<>> /\ ret.arg[2][2].up = <<"Break">>
    /\ Len(ret.val.calls) = 3
    /\ ret.val.calls[1].handler = 1
    /\ ret.val.calls[2].handler = 3 /\ ret.val.calls[3].handler = 2

\* C28: whenever the range check of read passes, size() is at most
\* 2^30 - 1 and offset at most size() - 1, so that the seek position
\* offset * 4 does not exceed u32::MAX: read does not panic in the product,
\* and the position it seeks to is the exact product (a quarter of it is
\* offset).
C28_SeekPositionFits ==
    (ret.op = "read_index_seek" /\ ret.val # None)
    => LET n == u32_div4(ret.arg[1])
           offset == ret.arg[2]
       IN  /\ n[1] < Half \div 4
           /\ ~u32_gt(offset, u32_dec(n))
           /\ offset[1] * 4 + (offset[2] * 4) \div Half < Half
           /\ ret.val.k = "Some"
           /\ u32_div4(ret.val.v) = offset
\* the last entry of the longest index has been sought: size() = 2^30 - 1,
\* offset = 2^30 - 2
C28_Witness ==
    /\ ret.op = "read_index_seek"
    /\ ret.arg = <<U32_MAX, <<16383, 65534>> >>
    /\ ret.val = Some(<<65535, 65528>>)
====
